---- MODULE Spec2Model ----
(***************************************************************************)
(* Nimbus worker: the job pipeline of POST /api/jobs (api/jobs.ts), the    *)
(* sandbox build driver with its heartbeat and log-tail timers             *)
(* (sandbox.ts), the job store (lib/db.ts), the scheduled cleanup sweeper   *)
(* (cleanup-worker), and the handlers' error responses and the log         *)
(* endpoint (api/jobs.ts).                                                 *)
(*                                                                         *)
(* Every await of the source is a step boundary: an action is the code     *)
(* that runs between two awaits.  A collaborator call (store, sandbox,     *)
(* archive, LLM, deploy API) either returns or throws; the outcome is      *)
(* chosen with \E.  Time is a counter of clock ticks read by `new Date()`  *)
(* and `Date.now()`.                                                       *)
(***************************************************************************)
EXTENDS Integers, Sequences, FiniteSets, TLC

\* ---------------------------------------------------------------- bounds
\* Highest value of the wall clock.
MaxClock == 2
\* Highest number of timer-driven events (heartbeats, log tails) per stream.
MaxTimerEvents == 1
\* The longest generated file list given to the normalizer.
MaxFiles == 3
\* The longest astro configuration file, in lines.
MaxConfigLines == 2
\* The longest log file, in lines.
MaxLogLines == 4
\* The highest number of polls of one log streamer.
MaxPolls == 3
\* The sweeper's LIMIT in the study of sweeps that select the same rows
\* again: the program's limit of 50 scaled to the jobs of the model, which
\* are one more than the limit.
ScaledLimit == 1

\* ------------------------------------------------------ program constants
\* api/jobs.ts:30  LOG_RETENTION_MS = 24h, here in clock ticks of 12 hours.
LOG_RETENTION_MS == 2
\* cleanup-worker index.ts:10
CLEANUP_LIMIT == 50

\* Job ids that generateJobId hands out in the modelled runs.
JobIds == {"job_a"}
\* Invocations of the scheduled handler that may be in progress together.
Sweepers == {"sweep1", "sweep2"}

\* SQL NULL / JS null for text columns and keys, and for timestamps.
NULL == <<>>
NoTime == 0 - 1

Stages == {"install", "build"}

\* The client of a job's event stream is still reading.
Connected == 0 - 1

\* No request has been answered yet.
NoRequest == [kind |-> "none", job |-> "", type |-> "", auth |-> NULL, token |-> NULL,
              body |-> "", key |-> NULL, store |-> "ok"]
NoResponse == [req |-> NoRequest, status |-> 0, body |-> NULL]

\* sandbox.ts:167-169  a log streamer as startLogStreamer sets it up (its
\* lastLine is null), on a log file that is still empty.  `sent` are the
\* messages of its log events, each line with its place in the file, and
\* `polled` the lines that the latest poll read and `remembered` the place of
\* the line whose text lastLine holds, all three for the properties.
NoStreamer ==
    [file |-> <<>>, lastLine |-> NULL, sent |-> <<>>, polls |-> 0, polled |-> {}, remembered |-> 0]

\* No file list is being normalized.
NoFiles == [input |-> <<>>, files |-> <<>>, passes |-> 0]

VARIABLES
    clock,      \* wall clock
    db,         \* jobs table: id -> row, for the ids inserted so far
    task,       \* the async pipeline task of each job: its position and locals
    stream,     \* operations on the SSE writer of each job, in call order
    timers,     \* heartbeat interval and log streamer of each stage
    fired,      \* number of timer-driven events sent so far, per job
    sbx,        \* sandbox of each job: "none", "live", "destroyCalled"
    logfiles,   \* log files that exist in the sandbox of each job
    bucket,     \* LOGS_BUCKET: key -> contents of the objects that exist
    workers,    \* edge workers currently published (by name)
    sweep,      \* each cleanupExpiredJobs invocation: position and locals
    api,        \* calls issued so far to the worker-delete API and the archive
    sink,       \* per job: Connected, or the number of writes the client received
    http,       \* the latest request answered without a stream, and its response
    norm,       \* a generated file list and what normalizeGeneratedFiles made of it
    tailer      \* one log file and the log streamer that polls it

vars == <<clock, db, task, stream, timers, fired, sbx, logfiles, bucket, workers, sweep, api,
          sink, http, norm, tailer>>

\* ------------------------------------------------------------- helpers

\* api/jobs.ts createLogKey
createLogKey(jobId, type) == <<"jobs", jobId, type>>

\* lib/worker-name.js buildWorkerName: a deterministic function of the id
buildWorkerName(jobId) == <<"nimbus", jobId>>

\* sandbox.ts:302  what Date.now() and Math.random() can give one build for
\* its sandbox id; neither depends on the job.
Randoms == {"r1", "r2"}


\* api/jobs.ts sendEvent: writer.write of one event; `by` tells which task
\* issued the call (the pipeline, a heartbeat interval, a log-tail poll).
sendEvent(s, type, by) == Append(s, [type |-> type, by |-> by])

\* api/jobs.ts:280  sendEvent({ type: 'error', message })
sendError(s, message) == Append(s, [type |-> "error", by |-> "pipeline", message |-> message])

TerminalTypes == {"complete", "error"}

\* ------------------------------------------------------------- job store

NewRow ==
    [status |-> "pending", started_at |-> NoTime, completed_at |-> NoTime,
     expires_at |-> NoTime, deployed_url |-> NULL, preview_url |-> NULL,
     error_message |-> NULL, worker_name |-> NULL,
     build_log_key |-> NULL, deploy_log_key |-> NULL,
     install_duration_ms |-> NoTime, build_duration_ms |-> NoTime]

NoFields == [f \in {} |-> NULL]

\* db.ts createJob: INSERT ... VALUES (?, ?, ?, 'pending')
createJob(d, id) == d @@ (id :> NewRow)

\* db.ts updateJobStatus: one UPDATE that sets status and the given fields;
\* it has no condition on the row's current status.
updateJobStatus(d, id, status, fields) ==
    IF id \in DOMAIN d
    THEN [d EXCEPT ![id] =
            [f \in DOMAIN d[id] |->
                IF f = "status" THEN status
                ELSE IF f \in DOMAIN fields THEN fields[f]
                ELSE d[id][f]]]
    ELSE d

\* db.ts markJobRunning
markJobRunning(d, id, now) ==
    updateJobStatus(d, id, "running", [started_at |-> now])

\* The options argument that api/jobs.ts:244-249 and 270-275 pass to
\* markJobCompleted / markJobFailed ({expiresAt, workerName, buildLogKey,
\* deployLogKey}): a value of undefined leaves the column alone.
optionFields(opts) ==
    (IF opts.expiresAt /= NoTime THEN [expires_at |-> opts.expiresAt] ELSE NoFields)
    @@ (IF opts.workerName /= NULL THEN [worker_name |-> opts.workerName] ELSE NoFields)
    @@ (IF opts.buildLogKey /= NULL THEN [build_log_key |-> opts.buildLogKey] ELSE NoFields)
    @@ (IF opts.deployLogKey /= NULL THEN [deploy_log_key |-> opts.deployLogKey] ELSE NoFields)

\* db.ts markJobCompleted
markJobCompleted(d, id, url, now, metrics, opts) ==
    updateJobStatus(d, id, "completed",
        [completed_at |-> now, preview_url |-> url, deployed_url |-> url,
         install_duration_ms |-> metrics.installDurationMs,
         build_duration_ms |-> metrics.buildDurationMs]
            @@ optionFields(opts))

\* markJobFailed as it would be if it did not stamp completed_at.
markJobFailedNoCompletedAt(d, id, errorMessage, now, opts) ==
    updateJobStatus(d, id, "failed", [error_message |-> errorMessage] @@ optionFields(opts))

\* markJobFailed as it would be if it dropped the error message.
markJobFailedNoMessage(d, id, errorMessage, now, opts) ==
    updateJobStatus(d, id, "failed", [completed_at |-> now] @@ optionFields(opts))

\* db.ts markJobFailed
markJobFailed(d, id, errorMessage, now, opts) ==
    updateJobStatus(d, id, "failed",
        [completed_at |-> now, error_message |-> errorMessage]
            @@ optionFields(opts))

\* ---------------------------------------------------------- pipeline task

IdleTask ==
    [pc |-> "idle", shape |-> "none", sandboxId |-> NULL, sandbox |-> NULL, overdue |-> FALSE, workerName |-> NULL,
     buildLogKey |-> NULL, deployLogKey |-> NULL, expiresAt |-> NoTime,
     dateArg |-> NoTime, deployedUrl |-> NULL, deployLog |-> NULL,
     error |-> "none", message |-> NULL,
     stageStart |-> NoTime, installDurationMs |-> 0, buildDurationMs |-> 0,
     requests |-> <<>>, llmErrors |-> <<>>, thrown |-> NULL]

NoTimer == [hb |-> FALSE, interval |-> FALSE, stopped |-> FALSE, polling |-> FALSE, reads |-> 0]

\* Shapes of the generated project: no package.json; package.json without a
\* build script; with a build script; Next.js on workers.
Shapes == {"static", "nobuild", "build", "next"}

\* Nothing has been requested, stored, deployed or swept yet.
Idle ==
    /\ clock = 0
    /\ db = NoFields
    /\ task = [j \in JobIds |-> IdleTask]
    /\ stream = [j \in JobIds |-> <<>>]
    /\ timers = [j \in JobIds |-> [st \in Stages |-> NoTimer]]
    /\ fired = [j \in JobIds |-> 0]
    /\ sbx = [j \in JobIds |-> "none"]
    /\ logfiles = [j \in JobIds |-> {}]
    /\ bucket = NoFields
    /\ workers = {}
    /\ sweep = [s \in Sweepers |->
                    [pc |-> "idle", now |-> NoTime, results |-> <<>>, response |-> "none",
                     skipped |-> FALSE]]
    /\ api = [workerDeleted |-> {}, logDeletes |-> {}]
    /\ sink = [j \in JobIds |-> Connected]
    /\ http = NoResponse
    /\ tailer = NoStreamer

Init ==
    /\ Idle
    /\ norm = NoFiles

\* Time passes.
Tick ==
    /\ clock < MaxClock
    /\ clock' = clock + 1
    /\ UNCHANGED <<db, task, stream, timers, fired, sbx, logfiles, bucket, workers, sweep, api, sink, http, norm, tailer>>

\* The catch block as it would be if it did not take the sandbox id from a
\* SandboxBuildError.
EnterCatchIgnoringErrorSandbox(t, j, kind, msg, dlog, now) ==
    [t EXCEPT !.error = kind,
              !.overdue = FALSE,
              !.shape = "none",
              !.stageStart = NoTime,
              !.installDurationMs = 0,
              !.buildDurationMs = 0,
              !.thrown = NULL,
              !.message = msg,
              !.deployLog = dlog,
              !.expiresAt = now + LOG_RETENTION_MS,
              !.dateArg = IF t.sandboxId /= NULL THEN t.dateArg ELSE now,
              !.pc = IF t.sandboxId /= NULL THEN "catchArchiveBuild" ELSE "markJobFailed"]

\* api/jobs.ts:253-268  the catch block up to its first await.  `kind` is
\* the class of the error ("plain", "build" = SandboxBuildError, "deploy" =
\* DeployError); a SandboxBuildError carries the sandbox id.
EnterCatch(t, j, kind, msg, dlog, now) ==
    LET sid == IF kind = "build" THEN t.sandbox ELSE t.sandboxId
    IN [t EXCEPT !.error = kind,
                 !.overdue = FALSE,
                 !.shape = "none",
                 !.stageStart = NoTime,
                 !.installDurationMs = 0,
                 !.buildDurationMs = 0,
                 !.thrown = NULL,
                 !.message = msg,
                 !.sandboxId = sid,
                 !.deployLog = dlog,
                 !.expiresAt = now + LOG_RETENTION_MS,
                 !.dateArg = IF sid /= NULL THEN t.dateArg ELSE now,
                 !.pc = IF sid /= NULL THEN "catchArchiveBuild" ELSE "markJobFailed"]

\* sandbox.ts:302  the sandbox id made for one build
newSandboxId(random) == <<"build", random>>

\* The ids a build can draw: an id another build has drawn, or an id none has
\* drawn, of which the first stands for all (their values are
\* interchangeable).
SandboxIds(j) ==
    LET drawn == {task[k].sandbox : k \in DOMAIN task \ {j}} \ {NULL}
        unused == {r \in Randoms : newSandboxId(r) \notin drawn}
    IN drawn \cup {newSandboxId(CHOOSE r \in unused :
                        \A q \in unused : r = "r1" \/ q /= "r1")}

\* sandbox.ts:303  getSandbox(namespace, id) addresses the one sandbox of
\* that id: the log files that the builds holding the id have written there.
SharedFiles(j, id) == {logfiles[k] : k \in {i \in DOMAIN task \ {j} : task[i].sandbox = id}}

\* A command of job j redirects its output to a file of its sandbox, which
\* is the sandbox of every build holding the same id.
WriteLog(j, file) ==
    [k \in DOMAIN logfiles |->
        IF k = j \/ (task[j].sandbox /= NULL /\ task[k].sandbox = task[j].sandbox)
        THEN logfiles[k] \cup {file}
        ELSE logfiles[k]]

\* sandbox.ts startHeartbeat + startLogStreamer: the interval is set and the
\* streamer issues its first poll at once (`void poll()`).
StartedTimer == [hb |-> TRUE, interval |-> TRUE, stopped |-> FALSE, polling |-> TRUE, reads |-> 1]

\* The stop functions returned by startHeartbeat and startLogStreamer:
\* clearInterval on both, stopped = true; a poll in flight stays in flight.
StopTimer(tm) == [tm EXCEPT !.hb = FALSE, !.interval = FALSE, !.stopped = TRUE]

\* The handler goes on: no error response.
Accepted == [status |-> 0, body |-> NULL]

\* Bodies of POST /api/jobs: not JSON; JSON without prompt, with an empty
\* prompt, with a prompt that is a number; JSON with a prompt string.
Bodies == {"notJson", "noPrompt", "emptyPrompt", "numberPrompt", "valid"}
\* env.OPENROUTER_API_KEY: not configured, or configured.
ApiKeys == {NULL, <<"key">>}
\* How the store answers a call: it returns, or it throws.
StoreAnswers == {"ok", "throws"}

\* api/jobs.ts:111-139  the checks of handleCreateJob before the row is
\* inserted: the error response, or Accepted.
validateCreateJob(body, apiKey) ==
    IF body = "notJson"
    THEN [status |-> 400, body |-> <<"error", "Invalid JSON body">>]
    ELSE IF body \in {"noPrompt", "emptyPrompt", "numberPrompt"}
    THEN [status |-> 400, body |-> <<"error", "Missing or invalid prompt">>]
    ELSE IF apiKey = NULL
    THEN [status |-> 500, body |-> <<"error", "OPENROUTER_API_KEY not configured">>]
    ELSE Accepted

\* The rejection as it would be if the row were inserted before the checks.
RejectCreateJobAfterInsert ==
    /\ \E body \in Bodies, apiKey \in ApiKeys, j \in JobIds :
          /\ validateCreateJob(body, apiKey) /= Accepted
          /\ j \notin DOMAIN db
          /\ db' = createJob(db, j)
          /\ http' = [req |-> [NoRequest EXCEPT !.kind = "create", !.body = body, !.key = apiKey],
                      status |-> validateCreateJob(body, apiKey).status,
                      body |-> validateCreateJob(body, apiKey).body]
    /\ UNCHANGED <<clock, task, stream, timers, fired, sbx, logfiles, bucket, workers, sweep, api, sink, norm, tailer>>

\* api/jobs.ts:111-155  POST /api/jobs answered with an error response: a
\* check fails, or the checks pass and createJob throws (no row is
\* inserted).
RejectCreateJob ==
    /\ \E body \in Bodies, apiKey \in ApiKeys, store \in StoreAnswers :
          LET req == [NoRequest EXCEPT !.kind = "create", !.body = body, !.key = apiKey,
                                       !.store = store]
              error == validateCreateJob(body, apiKey)
          IN IF error /= Accepted
             THEN http' = [req |-> req, status |-> error.status, body |-> error.body]
             ELSE /\ store = "throws"
                  /\ http' = [req |-> req, status |-> 500,
                              body |-> <<"error", "Failed to create job">>]
    /\ UNCHANGED <<clock, db, task, stream, timers, fired, sbx, logfiles, bucket, workers, sweep, api, sink, norm, tailer>>

\* api/jobs.ts:109-180  POST /api/jobs with a valid body: insert the row,
\* open the stream, start the task, which runs up to `await markJobRunning`.
HandleCreateJob(j) ==
    /\ task[j].pc = "idle"
    /\ j \notin DOMAIN db
    /\ \E body \in Bodies, apiKey \in ApiKeys : validateCreateJob(body, apiKey) = Accepted
    /\ db' = createJob(db, j)
    /\ stream' = [stream EXCEPT ![j] = sendEvent(@, "job_created", "pipeline")]
    /\ task' = [task EXCEPT ![j] = [@ EXCEPT !.pc = "markJobRunning", !.dateArg = clock]]
    /\ UNCHANGED <<clock, timers, fired, sbx, logfiles, bucket, workers, sweep, api, sink, http, norm, tailer>>

\* api/jobs.ts:180-185  markJobRunning returns or throws.
MarkJobRunning(j) ==
    /\ task[j].pc = "markJobRunning"
    /\ \/ /\ db' = markJobRunning(db, j, task[j].dateArg)
          /\ stream' = [stream EXCEPT ![j] = sendEvent(@, "generating", "pipeline")]
          /\ task' = [task EXCEPT ![j] = [@ EXCEPT !.pc = "generateCode",
                                                   !.requests = <<"json_schema">>]]
       \/ /\ task' = [task EXCEPT ![j] =
                        EnterCatch(@, j, "plain", <<"store error">>, NULL, clock)]
          /\ UNCHANGED <<db, stream>>
    /\ UNCHANGED <<clock, timers, fired, sbx, logfiles, bucket, workers, sweep, api, sink, http, norm, tailer>>

\* String.prototype.toLowerCase on the pieces a message is made of.
Lower(piece) ==
    CASE piece = "RESPONSE_FORMAT" -> "response_format"
      [] piece = "Structured" -> "structured"
      [] piece = "Schema" -> "schema"
      [] piece = "OpenRouter" -> "openrouter"
      [] piece = "API" -> "api"
      [] OTHER -> piece

toLowerCase(message) == [i \in DOMAIN message |-> Lower(message[i])]

\* String.prototype.includes: the phrase occurs as a run of adjacent pieces.
includes(message, phrase) ==
    \E i \in 1..(Len(message) - Len(phrase) + 1) :
        SubSeq(message, i, i + Len(phrase) - 1) = phrase

\* isResponseFormatUnsupported as it would be without toLowerCase.
isResponseFormatUnsupportedCaseSensitive(message) ==
    \/ includes(message, <<"response_format">>)
    \/ includes(message, <<"structured", "output">>)
    \/ includes(message, <<"json_", "schema">>)
    \/ includes(message, <<"schema">>)

\* llm.ts:95-103  isResponseFormatUnsupported
isResponseFormatUnsupported(message) ==
    LET normalized == toLowerCase(message)
    IN \/ includes(normalized, <<"response_format">>)
       \/ includes(normalized, <<"structured", "output">>)
       \/ includes(normalized, <<"json_", "schema">>)
       \/ includes(normalized, <<"schema">>)

\* llm.ts:66-93  messages of the errors fetchOpenRouterResponse raises: a
\* thrown fetch, and non-2xx answers whose body names the reason.
LlmFailures ==
    {<<"network", "error">>,
     <<"OpenRouter", "API", "error", "rate", "limit">>,
     <<"OpenRouter", "API", "error", "structured", "data", "output">>,
     <<"OpenRouter", "API", "error", "RESPONSE_FORMAT", "unsupported">>,
     <<"OpenRouter", "API", "error", "Structured", "output", "unavailable">>,
     <<"OpenRouter", "API", "error", "invalid", "json_", "Schema">>}

\* api/jobs.ts:185-201, llm.ts:137-240 and sandbox.ts:295-313  a
\* chat-completion request of generateCode is answered.  With usable files
\* of some shape generateCode returns and buildInSandbox is entered and
\* runs up to its first exec.  A failed first request whose message
\* isResponseFormatUnsupported accepts is followed by the second request,
\* without the descriptor; any other failure, and an answer without choices
\* or without parsable files, is thrown to the pipeline.  `requests` and
\* `llmErrors` are the requests issued and the failures met by this call.
GenerateCode(j) ==
    /\ task[j].pc \in {"generateCode", "generateCodeRetry"}
    /\ \/ \E sh \in Shapes :
            /\ stream' = [stream EXCEPT ![j] =
                    sendEvent(sendEvent(@, "generated", "pipeline"), "scaffolding", "pipeline")]
            /\ \E id \in SandboxIds(j) :
                  /\ task' = [task EXCEPT ![j] = [@ EXCEPT !.pc = "scaffold", !.shape = sh,
                                                           !.sandbox = id,
                                                           !.requests = <<>>, !.llmErrors = <<>>]]
                  /\ sbx' = [k \in DOMAIN sbx |->
                                IF k = j \/ task[k].sandbox = id THEN "live" ELSE sbx[k]]
                  /\ logfiles' = [logfiles EXCEPT ![j] = UNION ({@} \cup SharedFiles(j, id))]
       \/ \E message \in LlmFailures :
            /\ task' = [task EXCEPT ![j] =
                  IF task[j].pc = "generateCode" /\ isResponseFormatUnsupported(message)
                  THEN [@ EXCEPT !.pc = "generateCodeRetry",
                                 !.requests = Append(@, "none"),
                                 !.llmErrors = Append(@, message)]
                  ELSE EnterCatch([@ EXCEPT !.llmErrors = Append(@, message)],
                                  j, "plain", <<"LLM error">>, NULL, clock)]
            /\ UNCHANGED <<stream, sbx, logfiles>>
       \/ /\ task' = [task EXCEPT ![j] =
                        EnterCatch(@, j, "plain", <<"LLM error">>, NULL, clock)]
          /\ UNCHANGED <<stream, sbx, logfiles>>
    /\ UNCHANGED <<clock, db, timers, fired, bucket, workers, sweep, api, sink, http, norm, tailer>>

\* sandbox.ts:313-317  the two mkdir execs.
Scaffold(j) ==
    /\ task[j].pc = "scaffold"
    /\ \/ /\ stream' = [stream EXCEPT ![j] = sendEvent(@, "writing", "pipeline")]
          /\ task' = [task EXCEPT ![j] = [@ EXCEPT !.pc = "writeFiles"]]
       \/ /\ task' = [task EXCEPT ![j] =
                        EnterCatch(@, j, "build", <<"sandbox error">>, NULL, clock)]
          /\ UNCHANGED stream
    /\ UNCHANGED <<clock, db, timers, fired, sbx, logfiles, bucket, workers, sweep, api, sink, http, norm, tailer>>

\* The step as it would be if a project without package.json sent only
\* `installing`.
WriteFilesWithoutBuildingEvent(j) ==
    /\ task[j].pc = "writeFiles"
    /\ \/ /\ task[j].shape = "static"
          /\ stream' = [stream EXCEPT ![j] = sendEvent(@, "installing", "pipeline")]
          /\ task' = [task EXCEPT ![j] = [@ EXCEPT !.pc = "artifacts"]]
          /\ UNCHANGED <<timers, logfiles>>
       \/ /\ task[j].shape /= "static"
          /\ stream' = [stream EXCEPT ![j] = sendEvent(@, "installing", "pipeline")]
          /\ timers' = [timers EXCEPT ![j]["install"] = StartedTimer]
          /\ logfiles' = WriteLog(j, "install.log")
          /\ task' = [task EXCEPT ![j] = [@ EXCEPT !.pc = "install", !.stageStart = clock]]
       \/ /\ task' = [task EXCEPT ![j] =
                        EnterCatch(@, j, "build", <<"sandbox error">>, NULL, clock)]
          /\ UNCHANGED <<stream, timers, logfiles>>
    /\ UNCHANGED <<clock, db, fired, sbx, bucket, workers, sweep, api, sink, http, norm, tailer>>

\* sandbox.ts:318-358 and 457-461  the files are written; with a
\* package.json the install stage starts (event, heartbeat, log streamer,
\* exec issued), without one both stage events are sent at once.
WriteFiles(j) ==
    /\ task[j].pc = "writeFiles"
    /\ \/ /\ task[j].shape = "static"
          /\ stream' = [stream EXCEPT ![j] =
                  sendEvent(sendEvent(@, "installing", "pipeline"), "building", "pipeline")]
          /\ task' = [task EXCEPT ![j] = [@ EXCEPT !.pc = "artifacts"]]
          /\ UNCHANGED <<timers, logfiles>>
       \/ /\ task[j].shape /= "static"
          /\ stream' = [stream EXCEPT ![j] = sendEvent(@, "installing", "pipeline")]
          /\ timers' = [timers EXCEPT ![j]["install"] = StartedTimer]
          /\ logfiles' = WriteLog(j, "install.log")
          /\ task' = [task EXCEPT ![j] = [@ EXCEPT !.pc = "install", !.stageStart = clock]]
       \/ /\ task' = [task EXCEPT ![j] =
                        EnterCatch(@, j, "build", <<"sandbox error">>, NULL, clock)]
          /\ UNCHANGED <<stream, timers, logfiles>>
    /\ UNCHANGED <<clock, db, fired, sbx, bucket, workers, sweep, api, sink, http, norm, tailer>>

\* What the stage after install starts, sandbox.ts:379-389: the `building`
\* event and, with a build script, the build heartbeat and log streamer.
AfterInstall(j) ==
    /\ stream' = [stream EXCEPT ![j] = sendEvent(@, "building", "pipeline")]
    /\ IF task[j].shape = "nobuild"
       THEN /\ timers' = [timers EXCEPT ![j]["install"] = StopTimer(@)]
            /\ task' = [task EXCEPT ![j] =
                          [@ EXCEPT !.pc = "artifacts",
                                    !.overdue = FALSE,
                                    !.installDurationMs = clock - task[j].stageStart,
                                    !.stageStart = NoTime]]
            /\ UNCHANGED logfiles
       ELSE /\ timers' = [timers EXCEPT ![j]["install"] = StopTimer(@),
                                        ![j]["build"] = StartedTimer]
            /\ logfiles' = WriteLog(j, "build.log")
            /\ task' = [task EXCEPT ![j] =
                          [@ EXCEPT !.pc = IF task[j].shape = "next" THEN "nextBuild" ELSE "build",
                                    !.overdue = FALSE,
                                    !.installDurationMs = clock - task[j].stageStart,
                                    !.stageStart = clock]]

\* sandbox.ts:353-376  the install exec returns exit 0, returns nonzero, or
\* throws.  The exec is awaited before the try block whose finally stops
\* the timers, so a throw leaves both timers running.
Install(j) ==
    /\ task[j].pc = "install"
    /\ \/ AfterInstall(j)
       \/ /\ task' = [task EXCEPT ![j] = [@ EXCEPT !.pc = "installFailed", !.overdue = FALSE]]
          /\ UNCHANGED <<stream, timers, logfiles>>
       \/ /\ task' = [task EXCEPT ![j] =
                        EnterCatch(@, j, "build", <<"sandbox error">>, NULL, clock)]
          /\ UNCHANGED <<stream, timers, logfiles>>
    /\ UNCHANGED <<clock, db, fired, sbx, bucket, workers, sweep, api, sink, http, norm, tailer>>

\* sandbox.ts:363-376  nonzero exit: the log tail is read (twice), the
\* error is raised and the finally block stops the install timers.
\* sandbox.ts:12, 352-358  INSTALL_TIMEOUT passes while the install exec is
\* outstanding.  The command is awaited as sandbox.exec returns it, without
\* execWithTimeout: no timer of the driver runs, and it goes on waiting.
InstallTimeoutElapses(j) ==
    /\ task[j].pc = "install"
    /\ ~ task[j].overdue
    /\ task' = [task EXCEPT ![j] = [@ EXCEPT !.overdue = TRUE]]
    /\ UNCHANGED <<clock, db, stream, timers, fired, sbx, logfiles, bucket, workers, sweep, api, sink, http, norm, tailer>>

InstallFailed(j) ==
    /\ task[j].pc = "installFailed"
    /\ timers' = [timers EXCEPT ![j]["install"] = StopTimer(@)]
    /\ task' = [task EXCEPT ![j] =
                  EnterCatch(@, j, "build", <<"sandbox error">>, NULL, clock)]
    /\ UNCHANGED <<clock, db, stream, fired, sbx, logfiles, bucket, workers, sweep, api, sink, http, norm, tailer>>

\* sandbox.ts:12-15  the timeouts, as execWithTimeout prints them.
BUILD_TIMEOUT == "180s"
NEXTJS_BUILD_TIMEOUT == "120s"
OPENNEXT_BUILD_TIMEOUT == "60s"

\* sandbox.ts:33-35  the error of execWithTimeout's timer.
execTimeoutError(command, timeout) == <<"Command timed out after", timeout, command>>

\* sandbox.ts:109-119  readLogTail: the last lines of the file, or null
\* when the file is missing or empty.
readLogTail(j, file) ==
    {NULL} \cup (IF file \in logfiles[j] THEN {<<"lines">>} ELSE {})

\* sandbox.ts:121-126  formatLogSection
formatLogSection(label, contents) ==
    IF contents = NULL THEN <<>> ELSE <<"---", label, "(tail)", "---">> \o contents

\* sandbox.ts:128-136  ensureLogSection
ensureLogSection(message, label, contents) ==
    IF contents = NULL THEN message
    ELSE IF includes(message, <<label, "(tail)">>) THEN message
    ELSE message \o formatLogSection(label, contents)

\* The error an exec raises when the sandbox fails.
ExecError == <<"sandbox error">>

\* sandbox.ts:25-49  how an exec under execWithTimeout ends otherwise than
\* by returning exit code 0: the command exits nonzero (the error to raise
\* waits for the log tail), the exec throws, or the host timer fires first
\* and rejects with the command's name.
ExecFailure(t, exitMessage, command, timeout) ==
    {[t EXCEPT !.pc = "buildFailed", !.thrown = exitMessage],
     [t EXCEPT !.pc = "buildCatch", !.thrown = ExecError],
     [t EXCEPT !.pc = "buildCatch", !.thrown = execTimeoutError(command, timeout)]}

\* sandbox.ts:432-447  `bun run build` under execWithTimeout.
Build(j) ==
    /\ task[j].pc = "build"
    /\ \/ /\ timers' = [timers EXCEPT ![j]["build"] = StopTimer(@)]
          /\ task' = [task EXCEPT ![j] =
                        [@ EXCEPT !.pc = "artifacts",
                                  !.buildDurationMs = clock - task[j].stageStart,
                                  !.stageStart = NoTime]]
       \/ /\ \E t \in ExecFailure(task[j], <<"Build failed (exit 1).">>,
                                    "bun run build", BUILD_TIMEOUT) :
                task' = [task EXCEPT ![j] = t]
          /\ UNCHANGED timers
    /\ UNCHANGED <<clock, db, stream, fired, sbx, logfiles, bucket, workers, sweep, api, sink, http, norm, tailer>>

\* sandbox.ts:392-420  `bunx next build` under execWithTimeout and the
\* standalone-manifest check.
NextBuild(j) ==
    /\ task[j].pc = "nextBuild"
    /\ \/ task' = [task EXCEPT ![j] = [@ EXCEPT !.pc = "openNext"]]
       \/ \E t \in ExecFailure(task[j], <<"Next.js build failed (exit 1).">>,
                                 "bunx next build", NEXTJS_BUILD_TIMEOUT) :
             task' = [task EXCEPT ![j] = t]
       \/ task' = [task EXCEPT ![j] =
                     [@ EXCEPT !.pc = "buildFailed",
                               !.thrown = <<"Next.js standalone output missing.">>]]
    /\ UNCHANGED <<clock, db, stream, timers, fired, sbx, logfiles, bucket, workers, sweep, api, sink, http, norm, tailer>>

\* sandbox.ts:422-447  the OpenNext packaging exec under execWithTimeout.
OpenNext(j) ==
    /\ task[j].pc = "openNext"
    /\ \/ /\ timers' = [timers EXCEPT ![j]["build"] = StopTimer(@)]
          /\ task' = [task EXCEPT ![j] =
                        [@ EXCEPT !.pc = "artifacts",
                                  !.buildDurationMs = clock - task[j].stageStart,
                                  !.stageStart = NoTime]]
       \/ /\ \E t \in ExecFailure(task[j], <<"Build failed (exit 1).">>,
                                    "bunx opennextjs-cloudflare build", OPENNEXT_BUILD_TIMEOUT) :
                task' = [task EXCEPT ![j] = t]
          /\ UNCHANGED timers
    /\ UNCHANGED <<clock, db, stream, fired, sbx, logfiles, bucket, workers, sweep, api, sink, http, norm, tailer>>

\* sandbox.ts:399-417, 442-447  after a nonzero exit or a missing
\* manifest the log tail is read and the error is raised with the tail
\* attached; if the read throws, that error is raised instead.
BuildFailed(j) ==
    /\ task[j].pc = "buildFailed"
    /\ \/ \E logTail \in readLogTail(j, "build.log") :
            task' = [task EXCEPT ![j] =
                       [@ EXCEPT !.pc = "buildCatch",
                                 !.thrown = ensureLogSection(@, "build log", logTail)]]
       \/ task' = [task EXCEPT ![j] = [@ EXCEPT !.pc = "buildCatch", !.thrown = ExecError]]
    /\ UNCHANGED <<clock, db, stream, timers, fired, sbx, logfiles, bucket, workers, sweep, api, sink, http, norm, tailer>>

\* sandbox.ts:448-455, 523-526  the build stage's catch and finally: the
\* log tail is read again and attached unless the message has the section,
\* the build timers are stopped, and the error reaches the pipeline as a
\* SandboxBuildError; if the read throws, that error does.
BuildCatch(j) ==
    /\ task[j].pc = "buildCatch"
    /\ timers' = [timers EXCEPT ![j]["build"] = StopTimer(@)]
    /\ \/ \E logTail \in readLogTail(j, "build.log") :
            task' = [task EXCEPT ![j] =
                       EnterCatch(@, j, "build",
                                  ensureLogSection(task[j].thrown, "build log", logTail),
                                  NULL, clock)]
       \/ task' = [task EXCEPT ![j] = EnterCatch(@, j, "build", ExecError, NULL, clock)]
    /\ UNCHANGED <<clock, db, stream, fired, sbx, logfiles, bucket, workers, sweep, api, sink, http, norm, tailer>>

\* sandbox.ts:463-526 and api/jobs.ts:201-208  artifact checks and the
\* wrangler descriptor; on success buildInSandbox returns, the task keeps
\* the sandbox id and the worker name, sends `deploying` and calls
\* deployToWorkers.
Artifacts(j) ==
    /\ task[j].pc = "artifacts"
    /\ \/ /\ stream' = [stream EXCEPT ![j] = sendEvent(@, "deploying", "pipeline")]
          /\ task' = [task EXCEPT ![j] =
                        [@ EXCEPT !.pc = "deploy",
                                  !.shape = "none",
                                  !.sandboxId = task[j].sandbox,
                                  !.workerName = buildWorkerName(j)]]
       \/ /\ task' = [task EXCEPT ![j] =
                        EnterCatch(@, j, "build", <<"sandbox error">>, NULL, clock)]
          /\ UNCHANGED stream
    /\ UNCHANGED <<clock, db, timers, fired, sbx, logfiles, bucket, workers, sweep, api, sink, http, norm, tailer>>

\* deploy/workers.ts sanitizeLog: null stays null, anything else is redacted.
sanitizeLog(contents) == IF contents = NULL THEN NULL ELSE <<"redacted">>

\* deploy/workers.ts:36-65 and api/jobs.ts:208-213  the wrangler exec and
\* readDeployLog.  The worker may have been published whenever the command
\* ran.  Outcomes: an exec throws (plain error), nonzero exit or no URL in
\* the log (DeployError carrying the sanitized log), or a URL is parsed.
Deploy(j) ==
    /\ task[j].pc = "deploy"
    /\ \/ \E published \in BOOLEAN :
            /\ workers' = IF published THEN workers \cup {buildWorkerName(j)} ELSE workers
            /\ logfiles' = WriteLog(j, "deploy.log")
            /\ task' = [task EXCEPT ![j] =
                          EnterCatch(@, j, "plain", <<"deploy error">>, NULL, clock)]
       \/ \E published \in BOOLEAN, raw \in {NULL, <<"raw">>} :
            /\ workers' = IF published THEN workers \cup {buildWorkerName(j)} ELSE workers
            /\ logfiles' = WriteLog(j, "deploy.log")
            /\ task' = [task EXCEPT ![j] =
                          EnterCatch(@, j, "deploy", <<"deploy error">>, sanitizeLog(raw), clock)]
       \/ /\ workers' = workers \cup {buildWorkerName(j)}
          /\ logfiles' = WriteLog(j, "deploy.log")
          /\ task' = [task EXCEPT ![j] =
                        [@ EXCEPT !.pc = "archiveBuild",
                                  !.deployedUrl = <<"https", j, "workers.dev">>,
                                  !.deployLog = sanitizeLog(<<"raw">>),
                                  !.expiresAt = clock + LOG_RETENTION_MS]]
    /\ UNCHANGED <<clock, db, stream, timers, fired, sbx, bucket, sweep, api, sink, http, norm, tailer>>

\* api/jobs.ts readSandboxLog: the file's contents, or null when the file
\* is missing or empty or the exec throws.
readSandboxLog(j, file) ==
    {NULL} \cup (IF file \in logfiles[j] THEN {<<"raw">>} ELSE {})

\* The archive step as it would be if a failed upload were treated as a
\* failure of the job.
ArchiveFailingTheJob(j) ==
    /\ task[j].pc \in {"archiveBuild", "archiveDeploy", "catchArchiveBuild", "catchArchiveDeploy"}
    /\ LET t == task[j]
           isBuild == t.pc \in {"archiveBuild", "catchArchiveBuild"}
           key == createLogKey(j, IF isBuild THEN "build" ELSE "deploy")
           sources == IF isBuild THEN readSandboxLog(j, "build.log")
                      ELSE IF t.pc = "archiveDeploy"
                           THEN (IF t.deployLog /= NULL THEN {t.deployLog}
                                 ELSE readSandboxLog(j, "deploy.log"))
                      ELSE IF t.error = "deploy" THEN {t.deployLog}
                      ELSE readSandboxLog(j, "deploy.log")
       IN \E contents \in sources, putOk \in BOOLEAN :
            /\ contents = NULL => putOk
            /\ LET uploaded == IF contents /= NULL /\ putOk THEN key ELSE NULL
               IN /\ bucket' = IF uploaded /= NULL THEN (key :> contents) @@ bucket ELSE bucket
                  /\ task' = [task EXCEPT ![j] =
                       CASE contents /= NULL /\ ~ putOk ->
                              [EnterCatch(t, j, "plain", <<"archive error">>, NULL, clock)
                                  EXCEPT !.pc = "markJobFailed", !.dateArg = clock]
                         [] t.pc = "archiveBuild" ->
                              [t EXCEPT !.buildLogKey = uploaded, !.pc = "archiveDeploy"]
                         [] t.pc = "catchArchiveBuild" ->
                              [t EXCEPT !.buildLogKey = uploaded, !.pc = "catchArchiveDeploy"]
                         [] t.pc = "archiveDeploy" ->
                              [t EXCEPT !.deployLogKey = uploaded, !.dateArg = clock,
                                        !.pc = "markJobCompleted"]
                         [] OTHER ->
                              [t EXCEPT !.deployLogKey = uploaded, !.dateArg = clock,
                                        !.pc = "markJobFailed"]]
    /\ UNCHANGED <<clock, db, stream, timers, fired, sbx, logfiles, workers, sweep, api, sink, http, norm, tailer>>

\* api/jobs.ts:213-218 and 261-268  one log is read (or taken from the
\* deploy result / DeployError) and uploaded; uploadLog returns the key,
\* or null when there is nothing to upload or the put throws.  After the
\* deploy log the task reads the clock and calls markJobCompleted or
\* markJobFailed.
Archive(j) ==
    /\ task[j].pc \in {"archiveBuild", "archiveDeploy", "catchArchiveBuild", "catchArchiveDeploy"}
    /\ LET t == task[j]
           isBuild == t.pc \in {"archiveBuild", "catchArchiveBuild"}
           key == createLogKey(j, IF isBuild THEN "build" ELSE "deploy")
           sources == IF isBuild THEN readSandboxLog(j, "build.log")
                      ELSE IF t.pc = "archiveDeploy"
                           THEN (IF t.deployLog /= NULL THEN {t.deployLog}
                                 ELSE readSandboxLog(j, "deploy.log"))
                      ELSE IF t.error = "deploy" THEN {t.deployLog}
                      ELSE readSandboxLog(j, "deploy.log")
       IN \E contents \in sources, putOk \in BOOLEAN :
            /\ contents = NULL => putOk
            /\ LET uploaded == IF contents /= NULL /\ putOk THEN key ELSE NULL
               IN /\ bucket' = IF uploaded /= NULL THEN (key :> contents) @@ bucket ELSE bucket
                  /\ task' = [task EXCEPT ![j] =
                       CASE t.pc = "archiveBuild" ->
                              [t EXCEPT !.buildLogKey = uploaded, !.pc = "archiveDeploy"]
                         [] t.pc = "catchArchiveBuild" ->
                              [t EXCEPT !.buildLogKey = uploaded, !.pc = "catchArchiveDeploy"]
                         [] t.pc = "archiveDeploy" ->
                              [t EXCEPT !.deployLogKey = uploaded, !.dateArg = clock,
                                        !.pc = "markJobCompleted"]
                         [] OTHER ->
                              [t EXCEPT !.deployLogKey = uploaded, !.dateArg = clock,
                                        !.pc = "markJobFailed"]]
    /\ UNCHANGED <<clock, db, stream, timers, fired, sbx, logfiles, workers, sweep, api, sink, http, norm, tailer>>

\* api/jobs.ts:222-242  the metrics handed to markJobCompleted (the two
\* durations reported by buildInSandbox).
Metrics(t) ==
    [installDurationMs |-> t.installDurationMs, buildDurationMs |-> t.buildDurationMs]

\* The options of the two finishing store calls, api/jobs.ts:244-249, 270-275.
Options(t) ==
    [expiresAt |-> t.expiresAt, workerName |-> t.workerName,
     buildLogKey |-> t.buildLogKey, deployLogKey |-> t.deployLogKey]

\* api/jobs.ts:281-282  entering the finally block: destroySandbox calls
\* destroy() on the sandbox when the task knows a sandbox id.
EnterFinally(j, t) ==
    /\ sbx' = IF t.sandboxId /= NULL
              THEN [k \in DOMAIN sbx |->
                        IF k = j \/ task[k].sandbox = t.sandboxId THEN "destroyCalled" ELSE sbx[k]]
              ELSE sbx
    /\ task' = [task EXCEPT ![j] = [t EXCEPT !.pc = "destroy"]]

\* MarkJobCompleted as it would be if `deployed` and `complete` were sent
\* before the store call was awaited, whatever its outcome.
MarkJobCompletedSendingFirst(j) ==
    /\ task[j].pc = "markJobCompleted"
    /\ stream' = [stream EXCEPT ![j] =
            sendEvent(sendEvent(@, "deployed", "pipeline"), "complete", "pipeline")]
    /\ \/ /\ db' = markJobCompleted(db, j, task[j].deployedUrl, task[j].dateArg,
                                    Metrics(task[j]), Options(task[j]))
          /\ EnterFinally(j, task[j])
       \/ /\ task' = [task EXCEPT ![j] =
                        EnterCatch(@, j, "plain", <<"store error">>, NULL, clock)]
          /\ UNCHANGED <<db, sbx>>
    /\ UNCHANGED <<clock, timers, fired, logfiles, bucket, workers, sweep, api, sink, http, norm, tailer>>

\* MarkJobCompleted as it would be if a statement after the store call
\* could throw into the catch block once the row has been written.
MarkJobCompletedThenThrowing(j) ==
    /\ task[j].pc = "markJobCompleted"
    /\ \/ /\ db' = markJobCompleted(db, j, task[j].deployedUrl, task[j].dateArg,
                                    Metrics(task[j]), Options(task[j]))
          /\ \/ /\ stream' = [stream EXCEPT ![j] =
                        sendEvent(sendEvent(@, "deployed", "pipeline"), "complete", "pipeline")]
                /\ EnterFinally(j, task[j])
             \/ /\ task' = [task EXCEPT ![j] =
                              EnterCatch(@, j, "plain", <<"stream error">>, NULL, clock)]
                /\ UNCHANGED <<stream, sbx>>
       \/ /\ task' = [task EXCEPT ![j] =
                        EnterCatch(@, j, "plain", <<"store error">>, NULL, clock)]
          /\ UNCHANGED <<db, stream, sbx>>
    /\ UNCHANGED <<clock, timers, fired, logfiles, bucket, workers, sweep, api, sink, http, norm, tailer>>

\* api/jobs.ts:244-252  markJobCompleted returns (then `deployed` and
\* `complete` are sent and the finally block is entered) or throws.
MarkJobCompleted(j) ==
    /\ task[j].pc = "markJobCompleted"
    /\ \/ /\ db' = markJobCompleted(db, j, task[j].deployedUrl, task[j].dateArg,
                                    Metrics(task[j]), Options(task[j]))
          /\ stream' = [stream EXCEPT ![j] =
                  sendEvent(sendEvent(@, "deployed", "pipeline"), "complete", "pipeline")]
          /\ EnterFinally(j, task[j])
       \/ /\ task' = [task EXCEPT ![j] =
                        EnterCatch(@, j, "plain", <<"store error">>, NULL, clock)]
          /\ UNCHANGED <<db, stream, sbx>>
    /\ UNCHANGED <<clock, timers, fired, logfiles, bucket, workers, sweep, api, sink, http, norm, tailer>>

\* api/jobs.ts:269-282  markJobFailed returns or throws (the throw is
\* logged and dropped); `error` is sent and the finally block is entered.
MarkJobFailed(j) ==
    /\ task[j].pc = "markJobFailed"
    /\ \/ db' = markJobFailed(db, j, task[j].message, task[j].dateArg, Options(task[j]))
       \/ UNCHANGED db
    /\ stream' = [stream EXCEPT ![j] = sendError(@, task[j].message)]
    /\ EnterFinally(j, task[j])
    /\ UNCHANGED <<clock, timers, fired, logfiles, bucket, workers, sweep, api, sink, http, norm, tailer>>

\* api/jobs.ts:282-284  destroySandbox has returned (errors ignored);
\* writer.close().
Finally(j) ==
    /\ task[j].pc = "destroy"
    /\ stream' = [stream EXCEPT ![j] = sendEvent(@, "close", "pipeline")]
    /\ task' = [task EXCEPT ![j] = [@ EXCEPT !.pc = "done"]]
    /\ UNCHANGED <<clock, db, timers, fired, sbx, logfiles, bucket, workers, sweep, api, sink, http, norm, tailer>>

\* --------------------------------------------------------------- client

\* The client's going away as it would be if it ended the task on the spot.
DisconnectCancellingTask(j) ==
    /\ task[j].pc \notin {"idle", "done"}
    /\ sink[j] = Connected
    /\ sink' = [sink EXCEPT ![j] = Len(stream[j])]
    /\ task' = [task EXCEPT ![j] = [@ EXCEPT !.pc = "done"]]
    /\ UNCHANGED <<clock, db, stream, timers, fired, sbx, logfiles, bucket, workers, sweep, api, http, norm, tailer>>

\* api/jobs.ts:158-165  the client goes away while the task runs: the
\* readable side is cancelled, and from then on the promise returned by
\* writer.write rejects.  sendEvent drops that promise, so the task is not
\* told; the writes already made were received.
Disconnect(j) ==
    /\ task[j].pc \notin {"idle", "done"}
    /\ sink[j] = Connected
    /\ sink' = [sink EXCEPT ![j] = Len(stream[j])]
    /\ UNCHANGED <<clock, db, task, stream, timers, fired, sbx, logfiles, bucket, workers, sweep, api, http, norm, tailer>>

\* ------------------------------------------------------------------ logs

\* Values of the `Auth` header (NULL: no header) and of env.AUTH_TOKEN
\* (NULL: not configured).
AuthHeaders == {NULL, <<"token">>, <<"wrong">>}
AuthTokens == {NULL, <<"token">>}
\* Values of the `type` query parameter, and ids asked for.
LogTypes == {"build", "deploy", "other"}
AskedIds == JobIds \cup {"job_x"}

\* requireAuth as it would be if a request without the header passed.
requireAuthAcceptingNoHeader(auth, token) ==
    IF token = NULL
    THEN [status |-> 500, body |-> <<"error", "AUTH_TOKEN not configured">>]
    ELSE IF auth /= NULL /\ auth /= token
    THEN [status |-> 401, body |-> <<"error", "Unauthorized">>]
    ELSE Accepted

\* api/jobs.ts:84-99  requireAuth: the error response, or Accepted.
requireAuth(auth, token) ==
    IF token = NULL
    THEN [status |-> 500, body |-> <<"error", "AUTH_TOKEN not configured">>]
    ELSE IF auth /= token
    THEN [status |-> 401, body |-> <<"error", "Unauthorized">>]
    ELSE Accepted

\* db.ts getJobLogKeys: the two log keys of the row, or nothing when there
\* is no such row.
getJobLogKeys(d, id) ==
    IF id \in DOMAIN d
    THEN <<[buildLogKey |-> d[id].build_log_key, deployLogKey |-> d[id].deploy_log_key]>>
    ELSE NULL

\* api/jobs.ts:348-403  the response of handleGetJobLogs.
handleGetJobLogs(auth, token, type, id, store, d, b) ==
    LET authError == requireAuth(auth, token)
        logKeys == getJobLogKeys(d, id)
        logKey == IF type = "build" THEN logKeys[1].buildLogKey ELSE logKeys[1].deployLogKey
    IN IF authError /= Accepted THEN authError
       ELSE IF type \notin {"build", "deploy"}
       THEN [status |-> 400, body |-> <<"error", "Invalid log type">>]
       ELSE IF store = "throws"
       THEN [status |-> 500, body |-> <<"error", "store error">>]
       ELSE IF logKeys = NULL
       THEN [status |-> 404, body |-> <<"error", "Job not found">>]
       ELSE IF logKey = NULL
       THEN [status |-> 404, body |-> <<"error", "Log not available">>]
       ELSE IF logKey \notin DOMAIN b
       THEN [status |-> 404, body |-> <<"error", "Log not found">>]
       ELSE [status |-> 200, body |-> <<"log">> \o b[logKey]]

\* GET /api/jobs/{id}/logs?type=... is answered.
GetJobLogs ==
    /\ \E auth \in AuthHeaders, token \in AuthTokens, type \in LogTypes, id \in AskedIds,
          store \in StoreAnswers :
          LET response == handleGetJobLogs(auth, token, type, id, store, db, bucket)
          IN http' = [req |-> [NoRequest EXCEPT !.kind = "logs", !.job = id, !.type = type,
                                                !.auth = auth, !.token = token,
                                                !.store = store],
                      status |-> response.status,
                      body |-> response.body]
    /\ UNCHANGED <<clock, db, task, stream, timers, fired, sbx, logfiles, bucket, workers, sweep, api, sink, norm, tailer>>

\* --------------------------------------------------------------- timers

StageEvent(st) == IF st = "install" THEN "installing" ELSE "building"
LogEvent(st) == IF st = "install" THEN "log:install" ELSE "log:build"

\* sandbox.ts:92-97  the heartbeat interval fires.
Heartbeat(j, st) ==
    /\ timers[j][st].hb
    /\ fired[j] < MaxTimerEvents
    /\ stream' = [stream EXCEPT ![j] = sendEvent(@, StageEvent(st), "heartbeat")]
    /\ fired' = [fired EXCEPT ![j] = @ + 1]
    /\ UNCHANGED <<clock, db, task, timers, sbx, logfiles, bucket, workers, sweep, api, sink, http, norm, tailer>>

\* PollStart as it would be without the isPolling test of poll()'s guard:
\* a tick of the interval issues a read while another is outstanding.
PollStartWhilePolling(j, st) ==
    /\ timers[j][st].interval
    /\ ~ timers[j][st].stopped
    /\ timers[j][st].reads < 2
    /\ timers' = [timers EXCEPT ![j][st].polling = TRUE, ![j][st].reads = @ + 1]
    /\ UNCHANGED <<clock, db, task, stream, fired, sbx, logfiles, bucket, workers, sweep, api, sink, http, norm, tailer>>

\* sandbox.ts:171-175, 193-195  the streamer's interval fires and poll()
\* passes its guard: readLogTail is issued.
PollStart(j, st) ==
    /\ timers[j][st].interval
    /\ ~ timers[j][st].polling
    /\ ~ timers[j][st].stopped
    /\ timers' = [timers EXCEPT ![j][st].polling = TRUE, ![j][st].reads = @ + 1]
    /\ UNCHANGED <<clock, db, task, stream, fired, sbx, logfiles, bucket, workers, sweep, api, sink, http, norm, tailer>>

\* sandbox.ts:177-190  readLogTail returns or throws: with new lines a
\* `log` event is sent, whether or not the streamer was stopped meanwhile.
PollReturn(j, st) ==
    /\ timers[j][st].reads > 0
    /\ timers' = [timers EXCEPT ![j][st].polling = FALSE, ![j][st].reads = @ - 1]
    /\ \/ UNCHANGED <<stream, fired>>
       \/ /\ fired[j] < MaxTimerEvents
          /\ stream' = [stream EXCEPT ![j] = sendEvent(@, LogEvent(st), "poll")]
          /\ fired' = [fired EXCEPT ![j] = @ + 1]
    /\ UNCHANGED <<clock, db, task, sbx, logfiles, bucket, workers, sweep, api, sink, http, norm, tailer>>

\* -------------------------------------------------------------- sweeper

\* A sweep that is not running.  `response` is the answer of the worker-delete
\* API for the record in hand; `skipped` remembers that this invocation has
\* passed over a record (it is read by properties only).
IdleSweep == [pc |-> "idle", now |-> NoTime, results |-> <<>>, response |-> "none",
              skipped |-> FALSE]

Min(a, b) == IF a < b THEN a ELSE b

\* The WHERE clause as it would be without the comparison with `now`.
EligibleWithoutDeadline(row, now) ==
    /\ row.status \in {"completed", "failed"}
    /\ row.expires_at /= NoTime

\* cleanup-worker index.ts:65-74  the WHERE clause of the SELECT.
Eligible(row, now) ==
    /\ row.status \in {"completed", "failed"}
    /\ row.expires_at /= NoTime
    /\ row.expires_at <= now

\* cleanup-worker index.ts:12-17  CleanupJobRecord: the selected columns.
CleanupJobRecord(d, id) ==
    [id |-> id, worker_name |-> d[id].worker_name,
     build_log_key |-> d[id].build_log_key, deploy_log_key |-> d[id].deploy_log_key]

\* The SELECT as it would be without the condition on status.
selectExpiredAnyStatus(d, now, limit) ==
    LET ids == {id \in DOMAIN d : d[id].expires_at /= NoTime /\ d[id].expires_at <= now}
        n == Min(Cardinality(ids), limit)
    IN {[i \in 1..n |-> CleanupJobRecord(d, sq[i])] :
            sq \in {q \in [1..n -> ids] : \A a, b \in 1..n : a /= b => q[a] /= q[b]}}

\* cleanup-worker index.ts:65-74  the result sets the SELECT may return:
\* LIMIT rows (or all, when fewer match) in any order, as there is no
\* ORDER BY.
selectExpired(d, now, limit) ==
    LET ids == {id \in DOMAIN d : Eligible(d[id], now)}
        n == Min(Cardinality(ids), limit)
    IN {[i \in 1..n |-> CleanupJobRecord(d, sq[i])] :
            sq \in {q \in [1..n -> ids] : \A a, b \in 1..n : a /= b => q[a] /= q[b]}}

\* cleanup-worker index.ts:59-76  the scheduled handler reads the clock and
\* runs the SELECT; with an empty result the sweep is over.
SweepStart(s) ==
    /\ sweep[s].pc = "idle"
    /\ \E res \in selectExpired(db, clock, CLEANUP_LIMIT) :
          /\ res /= <<>>
          /\ sweep' = [sweep EXCEPT ![s] = [IdleSweep EXCEPT !.pc = "row", !.now = clock, !.results = res]]
    /\ UNCHANGED <<clock, db, task, stream, timers, fired, sbx, logfiles, bucket, workers, api, sink, http, norm, tailer>>

\* The for loop moves to the next record, or the sweep ends.
NextRecord(sw) ==
    IF Len(sw.results) > 1
    THEN [sw EXCEPT !.pc = "row", !.results = Tail(@), !.response = "none"]
    ELSE IdleSweep

\* Answers of the worker-delete API: 2xx with success, 404, another status,
\* 2xx with a body that says success=false.
WorkerResponses == {"ok", "notFound", "error", "successFalse"}

\* deleteWorker as it would be without the special case for 404.
deleteWorkerWithout404(response) == response = "ok"

\* cleanup-worker index.ts:31-47  deleteWorker's verdict on the response.
deleteWorker(response) ==
    IF response = "notFound" THEN TRUE
    ELSE IF response = "error" THEN FALSE
    ELSE IF response = "successFalse" THEN FALSE
    ELSE TRUE

\* cleanup-worker index.ts:20-29, 77-79  the DELETE request for the current
\* record's worker is sent and answered, or fetch throws and ends the sweep,
\* as the loop has no try block.  The API answers 2xx-with-success only for
\* a script that exists (and removes it) and 404 only for one that does not.
\* A record without a worker name goes on to its logs.
SweepDeleteWorker(s) ==
    /\ sweep[s].pc = "row"
    /\ LET name == Head(sweep[s].results).worker_name
       IN IF name = NULL
          THEN /\ sweep' = [sweep EXCEPT ![s].pc = "logs"]
               /\ UNCHANGED workers
          ELSE \/ \E response \in WorkerResponses :
                    /\ response = "ok" => name \in workers
                    /\ response = "notFound" => name \notin workers
                    /\ workers' = IF response = "ok" THEN workers \ {name} ELSE workers
                    /\ sweep' = [sweep EXCEPT ![s].pc = "response", ![s].response = response]
               \/ /\ sweep' = [sweep EXCEPT ![s] = IdleSweep]
                  /\ UNCHANGED workers
    /\ UNCHANGED <<clock, db, task, stream, timers, fired, sbx, logfiles, bucket, api, sink, http, norm, tailer>>

\* The loop body as it would be without the `continue` on a failed worker
\* delete: the record goes on to its logs.
SweepWorkerResponseWithoutSkip(s) ==
    /\ sweep[s].pc = "response"
    /\ sweep' = [sweep EXCEPT ![s].pc = "logs"]
    /\ api' = IF deleteWorker(sweep[s].response)
              THEN [api EXCEPT !.workerDeleted = @ \cup {Head(sweep[s].results).worker_name}]
              ELSE api
    /\ UNCHANGED <<clock, db, task, stream, timers, fired, sbx, logfiles, bucket, workers, sink, http, norm, tailer>>

\* cleanup-worker index.ts:31-48, 79-83  the response is judged: on true the
\* record goes on to its logs; on false the body has been read and logged
\* and the record is skipped; reading the body of a failed response may
\* throw, which ends the sweep.
SweepWorkerResponse(s) ==
    /\ sweep[s].pc = "response"
    /\ IF deleteWorker(sweep[s].response)
       THEN /\ sweep' = [sweep EXCEPT ![s].pc = "logs"]
            /\ api' = [api EXCEPT !.workerDeleted =
                          @ \cup {Head(sweep[s].results).worker_name}]
       ELSE /\ \/ sweep' = [sweep EXCEPT ![s] = NextRecord([@ EXCEPT !.skipped = TRUE])]
               \/ /\ sweep[s].response = "error"
                  /\ sweep' = [sweep EXCEPT ![s] = IdleSweep]
            /\ UNCHANGED api
    /\ UNCHANGED <<clock, db, task, stream, timers, fired, sbx, logfiles, bucket, workers, sink, http, norm, tailer>>

\* The keys deleteLogs deletes, in call order.
LogKeys(rec) ==
    (IF rec.build_log_key /= NULL THEN <<rec.build_log_key>> ELSE <<>>)
    \o (IF rec.deploy_log_key /= NULL THEN <<rec.deploy_log_key>> ELSE <<>>)

\* cleanup-worker index.ts:50-57, 85  deleteLogs: the first `done` deletes
\* succeed; if one is left its call throws and ends the sweep.
SweepDeleteLogs(s) ==
    /\ sweep[s].pc = "logs"
    /\ LET keys == LogKeys(Head(sweep[s].results))
       IN \E done \in 0..Len(keys) :
            /\ bucket' = [k \in DOMAIN bucket \ {keys[i] : i \in 1..done} |-> bucket[k]]
            /\ api' = [api EXCEPT !.logDeletes =
                          @ \cup {keys[i] : i \in 1..Min(done + 1, Len(keys))}]
            /\ sweep' = [sweep EXCEPT ![s] =
                          IF done = Len(keys) THEN [@ EXCEPT !.pc = "update"] ELSE IdleSweep]
    /\ UNCHANGED <<clock, db, task, stream, timers, fired, sbx, logfiles, workers, sink, http, norm, tailer>>

\* The UPDATE as it would be if it also cleared the log keys.
expireJobClearingKeys(d, id) ==
    IF id \in DOMAIN d
    THEN [d EXCEPT ![id].status = "expired", ![id].build_log_key = NULL,
                   ![id].deploy_log_key = NULL]
    ELSE d

\* cleanup-worker index.ts:87-90  UPDATE jobs SET status = 'expired' WHERE id = ?
expireJob(d, id) ==
    IF id \in DOMAIN d THEN [d EXCEPT ![id].status = "expired"] ELSE d

\* cleanup-worker index.ts:87-91  the UPDATE returns and the loop goes on,
\* or it throws and ends the sweep.
SweepUpdate(s) ==
    /\ sweep[s].pc = "update"
    /\ \/ /\ db' = expireJob(db, Head(sweep[s].results).id)
          /\ sweep' = [sweep EXCEPT ![s] = NextRecord(@)]
       \/ /\ sweep' = [sweep EXCEPT ![s] = IdleSweep]
          /\ UNCHANGED db
    /\ UNCHANGED <<clock, task, stream, timers, fired, sbx, logfiles, bucket, workers, api, sink, http, norm, tailer>>

\* ---------------------------------------------------------- specification

\* api/jobs.ts:168-285  the steps of one job's request pipeline.
Pipeline(j) ==
    \/ HandleCreateJob(j)
    \/ MarkJobRunning(j)
    \/ GenerateCode(j)
    \/ Scaffold(j)
    \/ WriteFiles(j)
    \/ Install(j)
    \/ InstallTimeoutElapses(j)
    \/ InstallFailed(j)
    \/ Build(j)
    \/ NextBuild(j)
    \/ OpenNext(j)
    \/ BuildFailed(j)
    \/ BuildCatch(j)
    \/ Artifacts(j)
    \/ Deploy(j)
    \/ Archive(j)
    \/ MarkJobCompleted(j)
    \/ MarkJobFailed(j)
    \/ Finally(j)

\* sandbox.ts:92-97, 161-203  the interval callbacks of one job's stages.
TimerCallbacks(j) ==
    \E st \in Stages :
        \/ Heartbeat(j, st)
        \/ PollStart(j, st)
        \/ PollReturn(j, st)

\* One invocation of the scheduled cleanup handler, step by step.
Sweeper(s) ==
    \/ SweepStart(s)
    \/ SweepDeleteWorker(s)
    \/ SweepWorkerResponse(s)
    \/ SweepDeleteLogs(s)
    \/ SweepUpdate(s)

\* The whole program: request pipelines, their timers, and the sweeper.
Next ==
    \/ Tick
    \/ \E j \in JobIds : Pipeline(j) \/ TimerCallbacks(j) \/ Disconnect(j)
    \/ \E s \in Sweepers : Sweeper(s)
    \/ RejectCreateJob
    \/ GetJobLogs

Spec == Init /\ [][Next]_vars

\* The timer callbacks write only stream, timers and fired, and the sweeper
\* reads and writes only db, bucket, workers, sweep and api; neither reads
\* what the other writes.  Properties of the event stream are therefore
\* checked without the sweeper, and properties of the store and the sweeper
\* without the timer callbacks, each on the component of Next that can
\* affect them.
StreamNext ==
    \/ Tick
    \/ \E j \in JobIds : Pipeline(j) \/ TimerCallbacks(j)

StreamSpec == Init /\ [][StreamNext]_vars

StoreNext ==
    \/ Tick
    \/ \E j \in JobIds : Pipeline(j)
    \/ \E s \in Sweepers : Sweeper(s)

StoreSpec == Init /\ [][StoreNext]_vars

\* The request pipeline with a client that may go away at any moment.
ClientNext ==
    \/ Tick
    \/ \E j \in JobIds : Pipeline(j) \/ Disconnect(j)

ClientSpec == Init /\ [][ClientNext]_vars

\* The HTTP surface: job requests that are accepted and run, job requests
\* that are rejected, and requests for archived logs.  No handler of these
\* requests reads a timestamp, so the clock stands still here.
HttpNext ==
    \/ \E j \in JobIds : Pipeline(j)
    \/ RejectCreateJob
    \/ GetJobLogs

HttpSpec == Init /\ [][HttpNext]_vars

\* ------------------------------------------- the sweeper over several jobs

\* Jobs whose pipelines ended before the sweeps under study.
SweptJobs == {"job_a", "job_b"}

\* How a pipeline may have ended: failed or completed, with or without a
\* worker name (a completed job always has one), the worker published or
\* not, with or without each archived log.
Endings ==
    {e \in [failed : BOOLEAN, worker : BOOLEAN, published : BOOLEAN,
            buildLog : BOOLEAN, deployLog : BOOLEAN] :
        /\ ~ e.failed => (e.worker /\ e.published)
        /\ e.published => e.worker}

\* The row that createJob, markJobRunning and markJobCompleted or
\* markJobFailed leave for such an ending at time 0.
FinishedRow(id, e) ==
    LET opts == [expiresAt |-> LOG_RETENTION_MS,
                 workerName |-> IF e.worker THEN buildWorkerName(id) ELSE NULL,
                 buildLogKey |-> IF e.buildLog THEN createLogKey(id, "build") ELSE NULL,
                 deployLogKey |-> IF e.deployLog THEN createLogKey(id, "deploy") ELSE NULL]
        running == markJobRunning(createJob(NoFields, id), id, 0)
    IN IF e.failed
       THEN markJobFailed(running, id, <<"sandbox error">>, 0, opts)[id]
       ELSE markJobCompleted(running, id, <<"https", id, "workers.dev">>, 0,
                             Metrics(IdleTask), opts)[id]

\* The store, archive and published workers after the pipelines of
\* SweptJobs have ended; no request is in progress.
SweepInit ==
    /\ clock = 0
    /\ \E e \in [SweptJobs -> Endings] :
          /\ db = [id \in SweptJobs |-> FinishedRow(id, e[id])]
          /\ bucket = [key \in {createLogKey(id, "build") : id \in {i \in SweptJobs : e[i].buildLog}}
                              \cup {createLogKey(id, "deploy") : id \in {i \in SweptJobs : e[i].deployLog}}
                          |-> <<"raw">>]
          /\ workers = {buildWorkerName(id) : id \in {i \in SweptJobs : e[i].published}}
    /\ task = [j \in JobIds |-> [IdleTask EXCEPT !.pc = "done"]]
    /\ stream = [j \in JobIds |-> <<>>]
    /\ timers = [j \in JobIds |-> [st \in Stages |-> NoTimer]]
    /\ fired = [j \in JobIds |-> 0]
    /\ sbx = [j \in JobIds |-> "none"]
    /\ logfiles = [j \in JobIds |-> {}]
    /\ sweep = [s \in Sweepers |-> IdleSweep]
    /\ api = [workerDeleted |-> {}, logDeletes |-> {}]
    /\ sink = [j \in JobIds |-> Connected]
    /\ http = NoResponse
    /\ tailer = NoStreamer
    /\ norm = NoFiles

\* The scheduled handler run again and again, each run after the one before
\* has ended.
SweepNext ==
    \/ Tick
    \/ \E s \in {"sweep1"} : Sweeper(s)

SweepSpec == SweepInit /\ [][SweepNext]_vars

\* ------------------------------------------------------------ properties

Positions(j) == 1..Len(stream[j])
Closed(j) == \E i \in Positions(j) : stream[j][i].type = "close"
Failed(j) == task[j].message /= NULL

LegalTransitions ==
    {<<"pending", "running">>, <<"running", "completed">>, <<"running", "failed">>,
     <<"completed", "expired">>, <<"failed", "expired">>}

\* C1: every change of a row's status is one of pending->running,
\* running->completed, running->failed, completed->expired, failed->expired.
C1_LegalTransitions ==
    [][\A j \in DOMAIN db :
          db'[j].status /= db[j].status
              => <<db[j].status, db'[j].status>> \in LegalTransitions]_vars

\* C2: the stream of an accepted job holds exactly one terminal event once
\* the task has ended, and nothing but the close follows a terminal event
\* and nothing at all follows the close.
C2_OneTerminalThenSilence ==
    \A j \in JobIds :
        /\ \A i, k \in Positions(j) :
              (i < k /\ stream[j][i].type \in TerminalTypes \cup {"close"})
                  => (stream[j][k].type = "close" /\ stream[j][i].type /= "close")
        /\ task[j].pc = "done"
              => Cardinality({i \in Positions(j) : stream[j][i].type \in TerminalTypes}) = 1

\* C3: once the writer of a job whose build entered buildInSandbox is
\* closed, destroy() has been invoked on the job's sandbox.
C3_DestroyBeforeClose ==
    \A j \in JobIds : (Closed(j) /\ sbx[j] /= "none") => sbx[j] = "destroyCalled"

\* C3 witness: a build failed inside the sandbox, the sandbox was destroyed
\* and the writer closed.
C3_Witness ==
    \E j \in JobIds : Closed(j) /\ task[j].error = "build" /\ sbx[j] = "destroyCalled"

\* C4: when the pipeline has ended in failure, the stream ends with `error`
\* and the row (until it is swept) reads failed, with the error's message
\* and an expiry.
C4_FailureIsRecorded ==
    \A j \in JobIds :
        (task[j].pc = "done" /\ Failed(j) /\ db[j].status /= "expired")
            => /\ \E i \in Positions(j) :
                     /\ stream[j][i].type = "error"
                     /\ \A k \in Positions(j) : k > i => stream[j][k].type = "close"
               /\ db[j].status = "failed"
               /\ db[j].error_message = task[j].message
               /\ db[j].expires_at /= NoTime

\* C5: started_at is set exactly on the rows that are running, completed,
\* failed or expired.
C5_StartedAtIffStarted ==
    \A j \in DOMAIN db :
        db[j].started_at /= NoTime
            <=> db[j].status \in {"running", "completed", "failed", "expired"}

\* C6: completed_at is set exactly on the rows that are completed, failed
\* or expired.
C6_CompletedAtIffFinished ==
    \A j \in DOMAIN db :
        db[j].completed_at /= NoTime <=> db[j].status \in {"completed", "failed", "expired"}

\* C6 witness: a row the pipeline finished and the sweeper expired.
C6_Witness ==
    \E j \in DOMAIN db : db[j].status = "expired" /\ db[j].completed_at /= NoTime

C8_ExpiryIsCompletionPlusRetention ==
    \A j \in DOMAIN db :
        db[j].status = "completed" => db[j].expires_at = db[j].completed_at + LOG_RETENTION_MS

\* The job an archive key belongs to.
KeyJob(key) == key[2]

Sweepable(row, now) ==
    /\ row.status \in {"completed", "failed", "expired"}
    /\ row.expires_at /= NoTime
    /\ row.expires_at <= now

C11_WorkerDeleteOutcome ==
    /\ [](\A s \in Sweepers :
            (sweep[s].pc \in {"logs", "update"} /\ Head(sweep[s].results).worker_name /= NULL)
                => sweep[s].response \in {"ok", "notFound"})
    /\ [][\A s \in Sweepers :
            (sweep[s].pc = "response" /\ sweep'[s] /= sweep[s])
                => LET rec == Head(sweep[s].results)
                   IN IF sweep[s].response \in {"ok", "notFound"}
                      THEN /\ sweep'[s] = [sweep[s] EXCEPT !.pc = "logs"]
                           /\ rec.worker_name \in api'.workerDeleted
                      ELSE /\ sweep'[s].pc = "idle" \/ Head(sweep'[s].results) /= rec
                           /\ UNCHANGED <<db, bucket, api>>
                           /\ Eligible(db[rec.id], sweep[s].now)
                                  => Eligible(db'[rec.id], clock')]_vars

\* C11 witness: one sweep goes on to the logs of a record after a 404 while
\* a sweep has skipped a record after another failure.
C11_Witness ==
    \E s1, s2 \in Sweepers :
        /\ sweep[s1].pc = "logs"
        /\ sweep[s1].response = "notFound"
        /\ sweep[s2].skipped

C13_FailureDoesNotEndSweep ==
    [][\A s \in Sweepers :
          (sweep[s].pc /= "idle" /\ Len(sweep[s].results) > 1) => sweep'[s].pc /= "idle"]_vars

ArchivePcs == {"archiveBuild", "archiveDeploy", "catchArchiveBuild", "catchArchiveDeploy"}

\* The errors the build stage raises before a log tail is attached.
BuildErrors ==
    {<<"Build failed (exit 1).">>, <<"Next.js build failed (exit 1).">>,
     <<"Next.js standalone output missing.">>, ExecError,
     execTimeoutError("bun run build", BUILD_TIMEOUT),
     execTimeoutError("bunx next build", NEXTJS_BUILD_TIMEOUT),
     execTimeoutError("bunx opennextjs-cloudflare build", OPENNEXT_BUILD_TIMEOUT)}

\* The messages of the errors the pipeline's stages raise.
PipelineFailures ==
    {<<"store error">>, <<"LLM error">>, <<"sandbox error">>, <<"deploy error">>}
        \cup {ensureLogSection(message, "build log", logTail) :
                  message \in BuildErrors, logTail \in {NULL, <<"lines">>}}

\* C15: reading and uploading a log, whatever their outcome, leave the
\* job's error and message, the store and the stream as they were and hand
\* over to the next archive step or to the finishing store call of the same
\* path; a job that ended without error has a completed row whose log keys
\* are those that were uploaded (null when none was); the error_message of
\* a row and the message of the `error` event are the message of the
\* failure that sent the pipeline to its catch block.
C15_ArchivalNeverChangesOutcome ==
    /\ [][\A j \in JobIds :
            (task[j].pc \in ArchivePcs /\ task'[j] /= task[j])
                => /\ task'[j].message = task[j].message
                   /\ task'[j].error = task[j].error
                   /\ task'[j].pc =
                         (CASE task[j].pc = "archiveBuild" -> "archiveDeploy"
                            [] task[j].pc = "archiveDeploy" -> "markJobCompleted"
                            [] task[j].pc = "catchArchiveBuild" -> "catchArchiveDeploy"
                            [] OTHER -> "markJobFailed")
                   /\ UNCHANGED <<db, stream>>]_vars
    /\ [](\A j \in JobIds :
            /\ (task[j].pc \in {"destroy", "done"} /\ task[j].error = "none")
                  => /\ db[j].status \in {"completed", "expired"}
                     /\ db[j].build_log_key = task[j].buildLogKey
                     /\ db[j].deploy_log_key = task[j].deployLogKey
            /\ task[j].message /= NULL => task[j].message \in PipelineFailures
            /\ j \in DOMAIN db
                  => (db[j].error_message /= NULL => db[j].error_message = task[j].message)
            /\ \A i \in Positions(j) :
                  stream[j][i].type = "error" => stream[j][i].message = task[j].message)

\* C15 witness: the build log existed in the sandbox, its archival failed,
\* and the job was completed with a null build_log_key.
C15_Witness ==
    \E j \in DOMAIN db :
        /\ db[j].status = "completed"
        /\ "build.log" \in logfiles[j]
        /\ db[j].build_log_key = NULL
        /\ db[j].deploy_log_key /= NULL

\* The event types written to a job's stream, in order.
Types(j) == [i \in Positions(j) |-> stream[j][i].type]

IsPrefix(p, q) == Len(p) <= Len(q) /\ \A i \in DOMAIN p : p[i] = q[i]

\* The job's files had no package.json: the install stage was passed
\* without its timers ever being started.
WasStatic(j) ==
    \/ task[j].shape = "static"
    \/ /\ task[j].shape = "none"
       /\ timers[j]["install"] = NoTimer
       /\ \E i \in Positions(j) : stream[j][i].type = "installing"

StaticEvents ==
    <<"job_created", "generating", "generated", "scaffolding", "writing", "installing",
      "building", "deploying", "deployed", "complete", "close">>

\* C16: for a job without package.json on which no stage has failed, the
\* stream is at every moment a prefix of job_created, generating, generated,
\* scaffolding, writing, installing, building, deploying, deployed,
\* complete (then the close), every event written by the pipeline itself;
\* when the task has ended the stream is that whole sequence and the row is
\* completed with both durations 0 and deployed_url set.
C16_StaticJobEventOrder ==
    \A j \in JobIds :
        (WasStatic(j) /\ task[j].error = "none")
            => /\ IsPrefix(Types(j), StaticEvents)
               /\ \A i \in Positions(j) : stream[j][i].by = "pipeline"
               /\ task[j].pc = "done"
                     => /\ Types(j) = StaticEvents
                        /\ db[j].status = "completed"
                        /\ db[j].install_duration_ms = 0
                        /\ db[j].build_duration_ms = 0
                        /\ db[j].deployed_url /= NULL

\* C16 witness: such a job has run to its end.
C16_Witness ==
    \E j \in JobIds :
        /\ WasStatic(j)
        /\ task[j].error = "none"
        /\ task[j].pc = "done"
        /\ db[j].status = "completed"

\* Events written by the timers of a stage: its heartbeat and its log tails.
StageTimerEvent(e, st) ==
    /\ e.by \in {"heartbeat", "poll"}
    /\ e.type \in {StageEvent(st), LogEvent(st)}

\* C17: no heartbeat or log event of the install stage is written after
\* the `building` event, and none of the build stage after `deploying` or
\* `error`.
C17_StageEventsBeforeTransition ==
    \A j \in JobIds : \A i, k \in Positions(j) :
        i < k =>
            /\ stream[j][i].type = "building" /\ stream[j][i].by = "pipeline"
                  => ~ StageTimerEvent(stream[j][k], "install")
            /\ stream[j][i].type \in {"deploying", "error"}
                  => ~ StageTimerEvent(stream[j][k], "build")

\* How a task that has ended left its job: destroy() was called on the
\* sandbox if one was made, a terminal event and the close were issued, and
\* the row is completed exactly when no stage failed, else failed (or as
\* it was, when the store refused markJobFailed).
Outcome(j) ==
    /\ sbx[j] /= "live"
    /\ Closed(j)
    /\ \E i \in Positions(j) : stream[j][i].type \in TerminalTypes
    /\ db[j].status = "completed" <=> task[j].error = "none"
    /\ db[j].status \in {"completed", "failed", "pending", "running"}

LogBodies == {<<"log">> \o bucket[key] : key \in DOMAIN bucket}

C21_DeployLogIsRedacted ==
    \A j \in JobIds :
        /\ createLogKey(j, "deploy") \in DOMAIN bucket
              => bucket[createLogKey(j, "deploy")] = sanitizeLog(<<"raw">>)
        /\ task[j].deployLog \in {NULL, sanitizeLog(<<"raw">>)}

\* The message names, in any letter case, one of response_format,
\* structured output, json_schema, schema.
MentionsResponseFormat(message) ==
    \E phrase \in {<<"response_format">>, <<"structured", "output">>,
                   <<"json_", "schema">>, <<"schema">>} :
        includes(toLowerCase(message), phrase)

\* C22: a call of generateCode issues at most two chat-completion requests,
\* the first with the json_schema descriptor and the second without; the
\* second has been issued exactly when the first failed with a message that
\* names response_format, structured output, json_schema or schema; after
\* any other failure of the first request and after any failure of the
\* second the error has been raised to the pipeline and no request is
\* issued any more; and the stream holds one `generating` event, never two.
C22_OneRetryWithoutDescriptor ==
    /\ [](\A j \in JobIds :
            LET t == task[j]
                generating == {i \in Positions(j) : stream[j][i].type = "generating"}
            IN /\ Len(t.requests) <= 2
               /\ Len(t.llmErrors) <= Len(t.requests)
               /\ Len(t.requests) >= 1 => t.requests[1] = "json_schema"
               /\ Len(t.requests) = 2 => t.requests[2] = "none"
               /\ Len(t.requests) = 2
                     <=> (Len(t.llmErrors) >= 1 /\ MentionsResponseFormat(t.llmErrors[1]))
               /\ (t.requests /= <<>> /\ Len(t.llmErrors) = Len(t.requests))
                     => (t.error = "plain" /\ t.pc \notin {"generateCode", "generateCodeRetry"})
               /\ t.pc \in {"generateCode", "generateCodeRetry"}
                     => Len(t.llmErrors) < Len(t.requests)
               /\ Cardinality(generating) <= 1
               /\ t.requests /= <<>> => Cardinality(generating) = 1)
    /\ [][\A j \in JobIds :
            Len(task'[j].requests) > Len(task[j].requests)
                => \/ task[j].pc = "markJobRunning" /\ task[j].requests = <<>>
                   \/ task[j].pc = "generateCode" /\ Len(task[j].requests) = 1]_vars

\* C22 witness: the first request failed over the descriptor, the second
\* request failed too, and the error was raised.
C22_Witness ==
    \E j \in JobIds :
        /\ Len(task[j].requests) = 2
        /\ Len(task[j].llmErrors) = 2
        /\ task[j].llmErrors[1] = <<"OpenRouter", "API", "error", "Structured", "output", "unavailable">>
        /\ task[j].pc = "done"

\* migrations/0001_jobs.sql:26  CHECK (status IN (...)); the later
\* migrations add columns and leave the constraint as it is.
StatusCheck == {"pending", "running", "completed", "failed"}

\* C23: every status that the pipeline or the sweeper has written to a row
\* is a value the table's CHECK constraint admits.
C23_WrittenStatusIsAdmitted ==
    \A j \in DOMAIN db : db[j].status \in StatusCheck

\* The key an archive step of job j uploads to, and the key it has got back
\* from uploadLog in the task t (NULL: nothing was put, or the put threw).
ArchiveKey(j, pc) ==
    createLogKey(j, IF pc \in {"archiveBuild", "catchArchiveBuild"} THEN "build" ELSE "deploy")
UploadedKey(t, pc) ==
    IF pc \in {"archiveBuild", "catchArchiveBuild"} THEN t.buildLogKey ELSE t.deployLogKey

\* C24: an archive step of the pipeline whose put succeeds writes a key
\* that holds no object yet: no key is put twice in one run.
C24_OnePutPerKey ==
    [][\A j \in JobIds :
          (/\ task[j].pc \in ArchivePcs
           /\ task'[j].pc /= task[j].pc
           /\ UploadedKey(task'[j], task[j].pc) /= NULL)
              => ArchiveKey(j, task[j].pc) \notin DOMAIN bucket]_vars

\* The build command of job j exited nonzero and that error reached the
\* pipeline.
BuildExitedNonzero(j) ==
    /\ task[j].message /= NULL
    /\ Head(task[j].message) \in {"Build failed (exit 1).", "Next.js build failed (exit 1)."}

\* C25: when the build command has exited nonzero and the task has ended,
\* the stream holds no `deploying` event and ends (before the close) with
\* an `error` whose message has a `--- build log (tail) ---` section, and
\* the row is failed with that message, with the build log's key when its
\* upload succeeded, and without a deploy log key.
C25_BuildFailureIsReported ==
    \A j \in JobIds :
        (task[j].pc = "done" /\ BuildExitedNonzero(j))
            => /\ \A i \in Positions(j) : stream[j][i].type /= "deploying"
               /\ Len(stream[j]) >= 2
               /\ stream[j][Len(stream[j]) - 1].type = "error"
               /\ stream[j][Len(stream[j]) - 1].message = task[j].message
               /\ includes(task[j].message, <<"---", "build log", "(tail)", "---">>)
               /\ db[j].status = "failed"
               /\ db[j].error_message = task[j].message
               /\ task[j].buildLogKey /= NULL => db[j].build_log_key = task[j].buildLogKey
               /\ db[j].deploy_log_key = NULL

\* ------------------------------------------------- framework normalizer
\* frameworks/index.ts.  A generated file is a path and a content; a content
\* is a sequence of lines and a line a sequence of strings.  A JSON text is
\* a layout line followed by one line per entry of the object, in the order
\* of its keys: <<key, value>> for a top-level string and
\* <<section, name, version>> for an entry of a dependency section.

\* The layout of JSON.stringify(data, null, 2) followed by a newline.
TwoSpaceLayout == <<"two-space layout">>
\* Any other layout of the same object.
OtherLayout == <<"other layout">>
\* A text JSON.parse throws on.
NotJson == <<<<"not json">>>>
\* The JSON text null, which parses but is no object.
JsonNull == <<<<"null">>>>

\* JSON.parse returns an object for the content.
ParsesToObject(content) ==
    /\ content /= <<>>
    /\ Head(content) \in {TwoSpaceLayout, OtherLayout}

\* JSON.parse on a content that parses to an object: its entries.
JSONparse(content) == Tail(content)

\* `${JSON.stringify(data, null, 2)}\n`
JSONstringify(data) == <<TwoSpaceLayout>> \o data

\* files.findIndex(test) for the set of the positions that pass the test,
\* 0 standing for -1.
findIndex(hits) ==
    IF hits = {} THEN 0 ELSE CHOOSE i \in hits : \A k \in hits : i <= k

\* The value of a top-level key of a parsed object, "" when it is undefined.
Property(data, key) ==
    LET hits == {i \in 1..Len(data) : Len(data[i]) = 2 /\ data[i][1] = key}
    IN IF hits = {} THEN "" ELSE data[CHOOSE i \in hits : TRUE][2]

\* data[section]?.[name], "" when it is undefined.
Dependency(data, section, name) ==
    LET hits == {i \in 1..Len(data) :
                    Len(data[i]) = 3 /\ data[i][1] = section /\ data[i][2] = name}
    IN IF hits = {} THEN "" ELSE data[CHOOSE i \in hits : TRUE][3]

\* lib/nimbus-config.ts:13-15  the test of files.find
IsNimbusConfigPath(path) == path \in {"nimbus.config.json", "app/nimbus.config.json"}

\* ASTRO_CONFIG_PATTERN, on the paths of the modelled file lists.
ASTRO_CONFIG_PATTERN(path) == path \in {"astro.config.mjs"}

\* The pattern of nextDefinition.detect.
NEXT_CONFIG_PATTERN(path) == path \in {"next.config.js"}

\* lib/nimbus-config.ts:12-29  The parsed object; null and {} are both <<>>,
\* which normalizeGeneratedFiles does not tell apart.
parseNimbusConfig(files) ==
    LET index == findIndex({i \in 1..Len(files) : IsNimbusConfigPath(files[i].path)})
    IN IF index = 0 THEN <<>>
       ELSE IF ParsesToObject(files[index].content)
            THEN JSONparse(files[index].content)
            ELSE <<>>

\* readPackageJson's null.
NoPackageJson == [index |-> 0, data |-> <<>>]

readPackageJson(files) ==
    LET index == findIndex({i \in 1..Len(files) : files[i].path = "package.json"})
    IN IF index = 0 THEN NoPackageJson
       ELSE IF ParsesToObject(files[index].content)
            THEN [index |-> index, data |-> JSONparse(files[index].content)]
            ELSE NoPackageJson

writePackageJson(files, index, data) ==
    [files EXCEPT ![index] = [@ EXCEPT !.content = JSONstringify(data)]]

upsertFile(files, path, content) ==
    LET index == findIndex({i \in 1..Len(files) : files[i].path = path})
    IN IF index = 0 THEN Append(files, [path |-> path, content |-> content])
       ELSE [files EXCEPT ![index] = [@ EXCEPT !.content = content]]

\* frameworks/astro.ts, frameworks/next.ts: the definitions' data.  An
\* output without a workerEntry or assetsDir has "" there; devDependencies is
\* set by neither.
astroDefinition ==
    [id |-> "astro", defaultTarget |-> "workers", supportedTargets |-> {"static", "workers"},
     dependencies |-> << <<"astro", "5.16.15">>, <<"@astrojs/cloudflare", "12.6.12">> >>,
     devDependencies |-> <<>>,
     outputs |-> [workers |-> [assetsDir |-> "dist", workerEntry |-> "dist/_worker.js/index.js"],
                  static |-> [assetsDir |-> "dist", workerEntry |-> ""]]]

nextDefinition ==
    [id |-> "next", defaultTarget |-> "workers", supportedTargets |-> {"workers"},
     dependencies |-> << <<"next", "latest">>, <<"react", "latest">>,
                         <<"react-dom", "latest">>, <<"@opennextjs/cloudflare", "latest">> >>,
     devDependencies |-> <<>>,
     outputs |-> [workers |-> [assetsDir |-> "", workerEntry |-> ""],
                  static |-> [assetsDir |-> "", workerEntry |-> ""]]]

FRAMEWORKS == <<astroDefinition, nextDefinition>>

\* resolveFramework's null.
NoFramework == [id |-> "none"]

\* framework.detect({ files, packageJson })
detect(framework, files, packageJson) ==
    IF framework.id = "astro"
    THEN \/ Dependency(packageJson, "dependencies", "astro") /= ""
         \/ Dependency(packageJson, "devDependencies", "astro") /= ""
         \/ \E i \in 1..Len(files) : ASTRO_CONFIG_PATTERN(files[i].path)
    ELSE \/ Dependency(packageJson, "dependencies", "next") /= ""
         \/ Dependency(packageJson, "devDependencies", "next") /= ""
         \/ \E i \in 1..Len(files) : NEXT_CONFIG_PATTERN(files[i].path)

resolveFramework(config, files, packageJson) ==
    LET direct == {i \in 1..Len(FRAMEWORKS) : FRAMEWORKS[i].id = Property(config, "framework")}
        detected == {i \in 1..Len(FRAMEWORKS) : detect(FRAMEWORKS[i], files, packageJson)}
    IN IF direct /= {} THEN FRAMEWORKS[CHOOSE i \in direct : TRUE]
       ELSE IF detected /= {}
            THEN FRAMEWORKS[CHOOSE i \in detected : \A k \in detected : i <= k]
            ELSE NoFramework

isTargetSupported(framework, target) == target \in framework.supportedTargets

resolveTarget(config, framework) ==
    IF /\ Property(config, "target") \in {"static", "workers"}
       /\ isTargetSupported(framework, Property(config, "target"))
    THEN Property(config, "target")
    ELSE framework.defaultTarget

\* object[key] = value on a parsed object: an existing key keeps its place,
\* a new one goes last.
SetProperty(data, key, value) ==
    LET hits == {i \in 1..Len(data) : Len(data[i]) = 2 /\ data[i][1] = key}
    IN IF hits = {} THEN Append(data, <<key, value>>)
       ELSE [i \in 1..Len(data) |-> IF i \in hits THEN <<key, value>> ELSE data[i]]

\* delete object[key]
DeleteProperty(data, key) ==
    SelectSeq(data, LAMBDA entry : ~(Len(entry) = 2 /\ entry[1] = key))

\* data[section] = { ...data[section], [name]: version }: an existing name
\* keeps its place and takes the new version, a new name goes last in the
\* section, a new section goes last in the object.
SpreadEntry(data, section, name, version) ==
    LET entry == <<section, name, version>>
        hits == {i \in 1..Len(data) :
                    Len(data[i]) = 3 /\ data[i][1] = section /\ data[i][2] = name}
        inSection == {i \in 1..Len(data) : Len(data[i]) = 3 /\ data[i][1] = section}
        last == CHOOSE i \in inSection : \A k \in inSection : k <= i
    IN IF hits /= {}
       THEN [i \in 1..Len(data) |-> IF i \in hits THEN entry ELSE data[i]]
       ELSE IF inSection = {} THEN Append(data, entry)
            ELSE SubSeq(data, 1, last) \o <<entry>> \o SubSeq(data, last + 1, Len(data))

RECURSIVE Spread(_, _, _)
\* data[section] = { ...(data[section] ?? {}), ...entries }
Spread(data, section, entries) ==
    IF entries = <<>> THEN data
    ELSE Spread(SpreadEntry(data, section, Head(entries)[1], Head(entries)[2]),
                section, Tail(entries))

applyDependencies(data, framework) ==
    Spread(Spread(data, "dependencies", framework.dependencies),
           "devDependencies", framework.devDependencies)

normalizeNimbusConfig(config, framework, target) ==
    LET output == framework.outputs[target]
        named == SetProperty(SetProperty(config, "framework", framework.id), "target", target)
        withAssets == IF output.assetsDir /= ""
                      THEN SetProperty(named, "assetsDir", output.assetsDir)
                      ELSE DeleteProperty(named, "assetsDir")
    IN IF output.workerEntry /= ""
       THEN SetProperty(withAssets, "workerEntry", output.workerEntry)
       ELSE DeleteProperty(withAssets, "workerEntry")

\* frameworks/astro.ts: the lines of an astro configuration file that the
\* normalizer's patterns tell apart.
ImportDefineConfig == <<"import { defineConfig } from 'astro/config';">>
ImportNode == <<"import node from '@astrojs/node';">>
ImportCloudflare == <<"import cloudflare from '@astrojs/cloudflare';">>
DefineConfig == <<"export default defineConfig({">>
AdapterNode == <<"  adapter: node(),">>
AdapterCloudflare == <<"  adapter: cloudflare(),">>
OutputStatic == <<"  output: 'static',">>
OutputServer == <<"  output: 'server',">>
CloseConfig == <<"});">>

AstroLines == {ImportDefineConfig, ImportNode, ImportCloudflare, DefineConfig,
               AdapterNode, AdapterCloudflare, OutputStatic, OutputServer}

\* content.includes(line), for a text that is one of the lines above.
HasLine(content, line) == \E i \in 1..Len(content) : content[i] = line

\* content.replace(pattern, replacement) with a pattern without the g flag:
\* the first match alone is replaced.
ReplaceFirst(content, line, replacement) ==
    LET index == findIndex({i \in 1..Len(content) : content[i] = line})
    IN IF index = 0 THEN content
       ELSE SubSeq(content, 1, index - 1) \o replacement
                \o SubSeq(content, index + 1, Len(content))

\* content.replace(pattern, replacement) with the g flag.
ReplaceAll(content, line, replacement) ==
    [i \in 1..Len(content) |-> IF content[i] = line THEN replacement ELSE content[i]]

RENDERER_INTEGRATIONS ==
    << [packageName |-> "@astrojs/preact", importName |-> "preact"],
       [packageName |-> "@astrojs/react", importName |-> "react"],
       [packageName |-> "@astrojs/solid-js", importName |-> "solid"],
       [packageName |-> "@astrojs/svelte", importName |-> "svelte"],
       [packageName |-> "@astrojs/vue", importName |-> "vue"] >>

\* The renderers among the package's dependencies, devDependencies winning
\* over dependencies of the same name.
getRendererImports(packageJson) ==
    SelectSeq(RENDERER_INTEGRATIONS,
              LAMBDA renderer :
                  LET dev == Dependency(packageJson, "devDependencies", renderer.packageName)
                      dep == Dependency(packageJson, "dependencies", renderer.packageName)
                      declaredDev == \E i \in 1..Len(packageJson) :
                                        /\ Len(packageJson[i]) = 3
                                        /\ packageJson[i][1] = "devDependencies"
                                        /\ packageJson[i][2] = renderer.packageName
                  IN IF declaredDev THEN dev /= "" ELSE dep /= "")

buildDefaultAstroConfig(packageJson) ==
    LET renderers == getRendererImports(packageJson)
        importLines == [i \in 1..Len(renderers) |->
                            <<"import", renderers[i].importName, "from",
                              renderers[i].packageName>>]
        integrationsLine == IF renderers = <<>> THEN <<>>
                            ELSE << <<"  integrations:">>
                                      \o [i \in 1..Len(renderers) |-> renderers[i].importName] >>
    IN <<ImportDefineConfig, ImportCloudflare>> \o importLines
           \o <<DefineConfig, OutputServer, AdapterCloudflare>> \o integrationsLine
           \o <<CloseConfig>>

ensureOutputServer(content) ==
    IF HasLine(content, OutputServer) THEN content
    ELSE IF HasLine(content, OutputStatic)
         THEN ReplaceFirst(content, OutputStatic, <<OutputServer>>)
         ELSE ReplaceFirst(content, DefineConfig, <<DefineConfig, OutputServer>>)

ensureCloudflareAdapter(content) ==
    LET imported ==
            IF HasLine(content, ImportNode)
            THEN ReplaceAll(ReplaceFirst(content, ImportNode, <<ImportCloudflare>>),
                            AdapterNode, AdapterCloudflare)
            ELSE IF ~HasLine(content, ImportCloudflare)
                 THEN IF HasLine(content, ImportDefineConfig)
                      THEN ReplaceFirst(content, ImportDefineConfig,
                                        <<ImportDefineConfig, ImportCloudflare>>)
                      ELSE <<ImportCloudflare>> \o content
                 ELSE content
    IN IF HasLine(content, ImportCloudflare) /\ HasLine(content, AdapterCloudflare)
       THEN content
       ELSE IF ~HasLine(imported, AdapterCloudflare)
            THEN ReplaceFirst(imported, DefineConfig, <<DefineConfig, AdapterCloudflare>>)
            ELSE imported

normalizeAstroConfigFiles(files, target, packageJson) ==
    LET index == findIndex({i \in 1..Len(files) : ASTRO_CONFIG_PATTERN(files[i].path)})
    IN IF target /= "workers" THEN files
       ELSE IF index = 0
            THEN Append(files, [path |-> "astro.config.mjs",
                                content |-> buildDefaultAstroConfig(packageJson)])
            ELSE [files EXCEPT ![index] =
                      [@ EXCEPT !.content = ensureOutputServer(ensureCloudflareAdapter(@))]]

\* The files of normalizeGeneratedFiles' result.
normalizeGeneratedFiles(files) ==
    LET config == parseNimbusConfig(files)
        packageJson == readPackageJson(files)
        framework == resolveFramework(config, files, packageJson.data)
        target == resolveTarget(config, framework)
        updatedPackage == IF packageJson.index /= 0
                          THEN applyDependencies(packageJson.data, framework)
                          ELSE packageJson.data
        written == IF packageJson.index /= 0
                   THEN writePackageJson(files, packageJson.index, updatedPackage)
                   ELSE files
        normalized == IF framework.id = "astro"
                      THEN normalizeAstroConfigFiles(written, target, updatedPackage)
                      ELSE written
    IN IF framework = NoFramework THEN files
       ELSE upsertFile(normalized, "nimbus.config.json",
                       JSONstringify(normalizeNimbusConfig(config, framework, target)))

\* ---- the generated file lists the normalizer is run on
PackageObjects ==
    { <<>>,
      << <<"name", "app">> >>,
      << <<"dependencies", "astro", "4.0.0">> >>,
      << <<"dependencies", "astro", "5.16.15">>,
         <<"dependencies", "@astrojs/cloudflare", "12.6.12">> >>,
      << <<"devDependencies", "astro", "4.0.0">>, <<"name", "app">> >>,
      << <<"dependencies", "next", "14.0.0">>, <<"dependencies", "react", "latest">> >>,
      << <<"dependencies", "@astrojs/react", "4.0.0">>,
         <<"dependencies", "astro", "5.16.15">> >> }

ConfigObjects ==
    { <<>>,
      << <<"framework", "astro">> >>,
      << <<"framework", "astro">>, <<"target", "static">> >>,
      << <<"target", "workers">>, <<"framework", "next">> >>,
      << <<"framework", "vue">>, <<"assetsDir", "public">>, <<"workerEntry", "worker.js">> >>,
      << <<"target", "static">> >>,
      << <<"framework", "astro">>, <<"target", "workers">>, <<"assetsDir", "dist">>,
         <<"workerEntry", "dist/_worker.js/index.js">> >> }

\* JSON texts of the objects: each in the normalizer's own layout, the first
\* ones in another layout too, and two texts that give no object.
JsonTexts(objects) ==
    {NotJson, JsonNull}
        \cup {<<TwoSpaceLayout>> \o data : data \in objects}
        \cup {<<OtherLayout>> \o data : data \in {o \in objects : Len(o) <= 1}}

Paths == <<"package.json", "nimbus.config.json", "app/nimbus.config.json",
           "astro.config.mjs", "next.config.js">>

Contents(path) ==
    IF path = "package.json" THEN JsonTexts(PackageObjects)
    ELSE IF path = "nimbus.config.json" THEN JsonTexts(ConfigObjects)
    ELSE IF path = "app/nimbus.config.json"
         THEN {NotJson, <<TwoSpaceLayout, <<"target", "static">> >>,
               <<TwoSpaceLayout, <<"framework", "next">> >>}
    ELSE IF path = "astro.config.mjs"
         THEN UNION {[1..n -> AstroLines] : n \in 0..MaxConfigLines}
    ELSE {<< <<"module.exports = {};">> >>}

RECURSIVE InOrder(_, _)
\* The paths at the chosen places, by ascending or by descending place.
InOrder(places, ascending) ==
    IF places = {} THEN <<>>
    ELSE LET first == CHOOSE i \in places :
                          \A k \in places : IF ascending THEN i <= k ELSE k <= i
         IN <<Paths[first]>> \o InOrder(places \ {first}, ascending)

RECURSIVE FileLists(_)
\* Every file list with the given paths, in their order.
FileLists(paths) ==
    IF paths = <<>> THEN {<<>>}
    ELSE {<<[path |-> Head(paths), content |-> content]>> \o rest :
              content \in Contents(Head(paths)), rest \in FileLists(Tail(paths))}

\* The file lists of at most maxFiles files.
GeneratedFileLists(maxFiles) ==
    UNION {FileLists(InOrder(places, ascending)) :
               places \in {ps \in SUBSET (1..Len(Paths)) : Cardinality(ps) <= maxFiles},
               ascending \in BOOLEAN}

NormalizeInit ==
    /\ Idle
    /\ \E files \in GeneratedFileLists(MaxFiles) :
          norm = [input |-> files, files |-> files, passes |-> 0]

\* One call of normalizeGeneratedFiles on the files the previous call
\* returned; two calls are enough to compare a pass with the one before.
Normalize ==
    /\ norm.passes < 2
    /\ norm' = [norm EXCEPT !.files = normalizeGeneratedFiles(@), !.passes = @ + 1]
    /\ UNCHANGED <<clock, db, task, stream, timers, fired, sbx, logfiles, bucket, workers, sweep, api, sink, http, tailer>>

\* The normalizer alone: it reads and writes nothing but its argument.
NormalizeSpec == NormalizeInit /\ [][Normalize]_vars

\* C26: normalizeGeneratedFiles is idempotent: applied to the file list it
\* returned, it returns the same paths in the same order with the same
\* contents.
C26_NormalizerIsIdempotent ==
    [][norm.passes = 1 => norm'.files = norm.files]_vars

\* The dependency entries of the first list all stand in the second with
\* the version they had.
KeepsVersions(before, after) ==
    \A i \in 1..Len(before) :
        Len(before[i]) = 3 => Dependency(after, before[i][1], before[i][2]) = before[i][3]

\* C27: a pass of the normalizer over a list with a package.json leaves
\* every dependency and devDependency entry of it at the version it had.
C27_ExistingVersionsAreKept ==
    [][readPackageJson(norm.files).index /= 0
        => KeepsVersions(readPackageJson(norm.files).data, readPackageJson(norm'.files).data)]_vars

\* ------------------------------------------------- two concurrent jobs
\* Two requests whose pipelines run at the same time.
ConcurrentJobs == {"job_a", "job_b"}

IsolationInit ==
    /\ clock = 0
    /\ db = NoFields
    /\ task = [j \in ConcurrentJobs |-> IdleTask]
    /\ stream = [j \in ConcurrentJobs |-> <<>>]
    /\ timers = [j \in ConcurrentJobs |-> [st \in Stages |-> NoTimer]]
    /\ fired = [j \in ConcurrentJobs |-> 0]
    /\ sbx = [j \in ConcurrentJobs |-> "none"]
    /\ logfiles = [j \in ConcurrentJobs |-> {}]
    /\ bucket = NoFields
    /\ workers = {}
    /\ sweep = [s \in Sweepers |->
                    [pc |-> "idle", now |-> NoTime, results |-> <<>>, response |-> "none",
                     skipped |-> FALSE]]
    /\ api = [workerDeleted |-> {}, logDeletes |-> {}]
    /\ sink = [j \in ConcurrentJobs |-> Connected]
    /\ http = NoResponse
    /\ tailer = NoStreamer
    /\ norm = NoFiles

\* The steps of the two pipelines in any interleaving; the clock stands
\* still, so both run within one millisecond.
IsolationNext == \E j \in ConcurrentJobs : Pipeline(j)

IsolationSpec == IsolationInit /\ [][IsolationNext]_vars

\* What belongs to job j: its row, its stream, the state and the log files
\* of the sandbox its build addresses, and its objects jobs/{id}/*.log.
Owned(j, rows, events, sandboxes, files, objects) ==
    <<[id \in {j} \cap DOMAIN rows |-> rows[id]],
      events[j], sandboxes[j], files[j],
      [key \in {createLogKey(j, type) : type \in {"build", "deploy"}} \cap DOMAIN objects |->
          objects[key]]>>

\* C28: among concurrent jobs a step of one pipeline changes nothing that
\* belongs to another job: not its row, not its stream, not its sandbox, not
\* its archived logs.
C28_JobsAreIsolated ==
    [][\A j \in ConcurrentJobs :
          task'[j] = task[j]
            => Owned(j, db', stream', sbx', logfiles', bucket')
                 = Owned(j, db, stream, sbx, logfiles, bucket)]_vars

\* The positions of the pipeline inside a stage: the stage's command is
\* running, or it has returned and the stage's own handling is under way.
StagePcs(st) ==
    IF st = "install" THEN {"install", "installFailed"}
    ELSE {"build", "nextBuild", "openNext", "buildFailed", "buildCatch"}

\* C29: outside a stage the stage's heartbeat interval and log interval are
\* cleared, however the stage ended: no heartbeat of it fires and no poll of
\* it starts.
C29_TimersStopAtStageEnd ==
    \A j \in JobIds : \A st \in Stages :
        task[j].pc \notin StagePcs(st) => ~ timers[j][st].hb /\ ~ timers[j][st].interval

\* The positions at which the driver waits on a long-running command.
LongCommandPcs == {"install", "build", "nextBuild", "openNext"}

\* C30: the driver never waits on a long-running command whose timeout has
\* passed: the host-side timer has by then ended the wait with an error.
C30_NoWaitBeyondTimeout ==
    \A j \in JobIds : ~ (task[j].pc \in LongCommandPcs /\ task[j].overdue)

\* ---------------------------------------------------------- log streamer
\* sandbox.ts:99-191.  The log file is a sequence of line texts; a line that
\* a poll hands on is the text with its place in the file, which the code
\* does not see and only the properties read.

\* The texts a line can have: "" is a blank line, and "a" is also what the
\* line "ab" reads as while the command has written half of it.
LineTexts == {"a", "ab", ""}

\* sandbox.ts:112  lineCount = 200, here a window of three lines.
lineCount == 3

\* The command appends to its log: a new line, or the rest of a last line
\* it had written half of.
LogGrows ==
    /\ \/ \E text \in LineTexts :
            /\ Len(tailer.file) < MaxLogLines
            /\ tailer' = [tailer EXCEPT !.file = Append(@, text)]
       \/ /\ tailer.file /= <<>>
          /\ tailer.file[Len(tailer.file)] = "a"
          /\ tailer' = [tailer EXCEPT !.file[Len(tailer.file)] = "ab"]
    /\ UNCHANGED <<clock, db, task, stream, timers, fired, sbx, logfiles, bucket, workers, sweep, api, sink, http, norm>>

\* sandbox.ts:114-116  tail -n lineCount: the last lines of the file.
tail(file) ==
    LET first == IF Len(file) > lineCount THEN Len(file) - lineCount + 1 ELSE 1
    IN [i \in 1..(Len(file) - first + 1) |-> [text |-> file[first + i - 1], at |-> first + i - 1]]

\* sandbox.ts:117  stdout.trim(): the blank lines at either end go.
trim(lines) ==
    LET written == {i \in 1..Len(lines) : lines[i].text /= ""}
    IN IF written = {} THEN <<>>
       ELSE SubSeq(lines, CHOOSE i \in written : \A k \in written : i <= k,
                          CHOOSE i \in written : \A k \in written : k <= i)

\* sandbox.ts:99-107  null for an empty text; MAX_LOG_CHARS (4000) is more
\* than lineCount of the modelled lines hold, so nothing is cut.
truncateLog(contents) == IF contents = <<>> THEN NULL ELSE contents

\* sandbox.ts:109-119 on a file that exists, when the exec returns.
logTail(file) == truncateLog(trim(tail(file)))

\* lines.lastIndexOf(text), 0 standing for -1.
lastIndexOf(lines, text) ==
    LET hits == {i \in 1..Len(lines) : lines[i].text = text}
    IN IF hits = {} THEN 0 ELSE CHOOSE i \in hits : \A k \in hits : k <= i

\* sandbox.ts:138-159  `contents` is a trimmed tail that is not empty, so
\* contents.trim() is never empty here; a message of no lines is null.
getNewLogLines(contents, lastLine) ==
    LET nextLastLine == <<contents[Len(contents)].text>>
        lastIndex == IF lastLine \in {NULL, <<"">>} THEN 0
                     ELSE lastIndexOf(contents, lastLine[1])
        newLines == SelectSeq(SubSeq(contents, lastIndex + 1, Len(contents)),
                              LAMBDA line : line.text /= "")
    IN IF lastIndex = 0 THEN [message |-> contents, lastLine |-> nextLastLine]
       ELSE [message |-> newLines, lastLine |-> nextLastLine]

\* sandbox.ts:171-191  one poll of the streamer, from the return of
\* readLogTail on: nothing for an empty tail, else lastLine is replaced and
\* a log event is sent for a message that is not null.
Poll ==
    /\ tailer.polls < MaxPolls
    /\ LET contents == logTail(tailer.file)
           update == getNewLogLines(contents, tailer.lastLine)
       IN tailer' =
            IF contents = NULL
            THEN [tailer EXCEPT !.polls = @ + 1, !.polled = {}]
            ELSE [tailer EXCEPT !.polls = @ + 1,
                                !.lastLine = update.lastLine,
                                !.sent = IF update.message /= NULL
                                         THEN Append(@, update.message) ELSE @,
                                !.polled = {contents[i] : i \in 1..Len(contents)},
                                !.remembered = contents[Len(contents)].at]
    /\ UNCHANGED <<clock, db, task, stream, timers, fired, sbx, logfiles, bucket, workers, sweep, api, sink, http, norm>>

\* One log streamer and the command whose log it follows.
TailNext == LogGrows \/ Poll

TailSpec == Init /\ [][TailNext]_vars

\* The lines of the log events sent so far.
Emitted(sent) == UNION {{sent[i][k] : k \in 1..Len(sent[i])} : i \in 1..Len(sent)}

\* C31: no line of a log event was in an earlier log event of the streamer.
C31_NoLineIsSentAgain ==
    \A i, k \in 1..Len(tailer.sent) :
        i < k => \A m \in 1..Len(tailer.sent[i]), n \in 1..Len(tailer.sent[k]) :
                    tailer.sent[i][m] /= tailer.sent[k][n]

\* C32: when the file has grown by less than the window since the line
\* that lastLine remembers, every written line that a poll reads after that
\* line is in a log event once the poll is over.
C32_NoLineIsLost ==
    [][(/\ tailer'.polls > tailer.polls
        /\ Len(tailer.file) - tailer.remembered < lineCount)
          => \A line \in tailer'.polled :
                (line.text /= "" /\ line.at > tailer.remembered)
                    => line \in Emitted(tailer'.sent)]_vars

\* ------------------------------------------------------------- progress
\* The pipeline of one job when every call it awaits returns or throws in
\* the end: a step of the pipeline that can be taken is taken.
LiveNext == \E j \in JobIds : Pipeline(j)

LiveSpec == Init /\ [][LiveNext]_vars /\ WF_vars(LiveNext)

\* C33: a job whose row was inserted is completed or failed in the end.
C33_EveryJobFinishes ==
    \A j \in JobIds :
        (j \in DOMAIN db) ~> (j \in DOMAIN db /\ db[j].status \in {"completed", "failed"})

HasComplete(s) == \E i \in DOMAIN s : s[i].type = "complete"

\* C34: a `complete` event is written to a job's stream only in the step
\* in which markJobCompleted has returned, and the row then has status
\* `completed` and the deployed_url that the deploy returned; the row of a
\* job whose stream holds `complete` keeps that deployed_url, and its
\* status is `completed` until the sweeper expires it.
C34_CompleteFollowsTheCompletedRow ==
    /\ [][\A j \in JobIds :
            (HasComplete(stream'[j]) /\ ~ HasComplete(stream[j]))
                => /\ task[j].pc = "markJobCompleted"
                   /\ task[j].deployedUrl /= NULL
                   /\ j \in DOMAIN db
                   /\ db[j].status = "running"
                   /\ db'[j].status = "completed"
                   /\ db'[j].deployed_url = task[j].deployedUrl]_vars
    /\ [](\A j \in JobIds :
            HasComplete(stream[j])
                => /\ db[j].status \in {"completed", "expired"}
                   /\ db[j].deployed_url = task[j].deployedUrl
                   /\ task[j].deployedUrl = <<"https", j, "workers.dev">>)

\* C34 witness: `complete` is on the stream of a job whose deploy returned
\* a URL, and the row is completed with that URL.
C34_Witness ==
    \E j \in DOMAIN db :
        /\ HasComplete(stream[j])
        /\ db[j].status = "completed"
        /\ db[j].deployed_url = <<"https", j, "workers.dev">>

\* C35: a row whose status is `completed` or `failed` is changed by no step
\* of the pipeline task; the only step that changes it is the sweeper's
\* UPDATE of that job, which sets the status to `expired`.
C35_TerminalRowIsLeftToTheSweeper ==
    [][\A j \in DOMAIN db :
          db[j].status \in {"completed", "failed"}
              => /\ task' /= task => db'[j] = db[j]
                 /\ db'[j] /= db[j]
                      => /\ \E s \in Sweepers :
                              /\ sweep[s].pc = "update"
                              /\ Head(sweep[s].results).id = j
                              /\ sweep'[s] /= sweep[s]
                         /\ db' = expireJob(db, j)]_vars

\* C35 witness: the pipeline task has run to its end after it wrote the
\* terminal status, and the row is as that write left it.
C35_Witness ==
    \E j \in DOMAIN db :
        /\ task[j].pc = "done"
        /\ db[j].status \in {"completed", "failed"}
        /\ db[j].completed_at = task[j].dateArg

\* C36: once the pipeline task is over, every log object it put in the
\* bucket is named by the row: the build log by build_log_key, the deploy
\* log by deploy_log_key.
C36_ArchivedLogsAreReferenced ==
    \A j \in JobIds :
        task[j].pc = "done"
            => /\ createLogKey(j, "build") \in DOMAIN bucket
                    => db[j].build_log_key = createLogKey(j, "build")
               /\ createLogKey(j, "deploy") \in DOMAIN bucket
                    => db[j].deploy_log_key = createLogKey(j, "deploy")

\* C37: once the pipeline task is over, the row of a job whose deploy
\* command was run has the worker's name, a terminal status and an
\* expires_at, so that a later sweep can select it.
C37_DeployedJobCanBeSwept ==
    \A j \in JobIds :
        (task[j].pc = "done" /\ "deploy.log" \in logfiles[j])
            => /\ db[j].worker_name = buildWorkerName(j)
               /\ db[j].status \in {"completed", "failed", "expired"}
               /\ db[j].expires_at /= NoTime

\* C38: once destroy() has been called on a job's sandbox, the pipeline
\* task is past its last command and no log-tail poll issues a read
\* against the sandbox.
C38_NoCommandAfterDestroy ==
    /\ [](\A j \in JobIds : sbx[j] = "destroyCalled" => task[j].pc \in {"destroy", "done"})
    /\ [][\A j \in JobIds : \A st \in Stages :
            (timers'[j][st].polling /\ ~ timers[j][st].polling)
                => sbx[j] /= "destroyCalled"]_vars

\* ------------------------------------------ sweeps that meet the same rows

\* cleanup-worker index.ts:59-76  the SELECT with a limit of `limit` rows.
SweepStartWithin(s, limit) ==
    /\ sweep[s].pc = "idle"
    /\ \E res \in selectExpired(db, clock, limit) :
          /\ res /= <<>>
          /\ sweep' = [sweep EXCEPT ![s] = [IdleSweep EXCEPT !.pc = "row", !.now = clock, !.results = res]]
    /\ UNCHANGED <<clock, db, task, stream, timers, fired, sbx, logfiles, bucket, workers, api, sink, http, norm, tailer>>

\* The jobs whose worker the delete API refuses to delete at every sweep.
FailingJobs == {"job_b"}

\* The answers the sweeper's calls get in this study: the worker delete of
\* a failing job answers with an error status every time, its body is
\* read and the loop goes on, and every other call succeeds.
PersistentAnswers(s) ==
    sweep[s].pc /= "idle" =>
        LET id == Head(sweep[s].results).id
        IN CASE sweep[s].pc = "row" ->
                    IF id \in FailingJobs
                    THEN sweep'[s].pc = "logs" \/ sweep'[s].response = "error"
                    ELSE sweep'[s].pc = "logs" \/ sweep'[s].response \in {"ok", "notFound"}
             [] sweep[s].pc = "response" ->
                    Len(sweep[s].results) > 1 => sweep'[s].pc /= "idle"
             [] sweep[s].pc = "logs" ->
                    sweep'[s].pc = "update"
             [] OTHER ->
                    db'[id].status = "expired"

\* One run of the scheduled handler after another, each with the scaled
\* limit and the answers above.
StarvedSweeper(s) ==
    /\ \/ SweepStartWithin(s, ScaledLimit)
       \/ SweepDeleteWorker(s)
       \/ SweepWorkerResponse(s)
       \/ SweepDeleteLogs(s)
       \/ SweepUpdate(s)
    /\ PersistentAnswers(s)

StarvedNext ==
    \/ Tick
    \/ StarvedSweeper("sweep1")

\* Time passes, the schedule fires again and again, and every call the
\* handler awaits is answered.
StarvedSpec ==
    SweepInit /\ [][StarvedNext]_vars /\ WF_vars(Tick) /\ WF_vars(StarvedSweeper("sweep1"))

\* C39: a job that the sweeper's SELECT matches and for which every call
\* succeeds is expired in the end, whatever happens to the other jobs.
C39_EligibleJobIsExpired ==
    \A j \in SweptJobs \ FailingJobs :
        Eligible(db[j], clock) ~> (db[j].status = "expired")

\* C40: a streamer has at most one readLogTail outstanding, and a read is
\* issued only by a streamer that has not been stopped and has none
\* outstanding.
C40_OnePollAtATime ==
    /\ [](\A j \in JobIds : \A st \in Stages : timers[j][st].reads <= 1)
    /\ [][\A j \in JobIds : \A st \in Stages :
            timers'[j][st].reads > timers[j][st].reads
                => /\ ~ timers[j][st].stopped
                   /\ timers[j][st].reads = 0]_vars

\* C40 witness: a streamer whose earlier poll returned and sent a `log`
\* event has the next poll outstanding while its interval is armed.
C40_Witness ==
    \E j \in JobIds : \E st \in Stages :
        /\ timers[j][st].reads = 1
        /\ timers[j][st].interval
        /\ \E i \in Positions(j) : stream[j][i].type = LogEvent(st) /\ stream[j][i].by = "poll"

====
